---- MODULE Spec2Model ----
(***************************************************************************)
(* A model of the DHCPv6 message codec: the bounds-checked byte cursor     *)
(* (buffer.rs), the option TLV engine with its per-option parsers and      *)
(* encoders and the option comparator (options.rs), and the client message *)
(* framing (lib.rs).                                                       *)
(*                                                                         *)
(* Bytes are naturals in 0..255 and a byte buffer is a sequence of them.   *)
(* A Rust Result is a record [err, val, off]: err is "Ok" or the Error     *)
(* variant, val the value (or the error's payload) and, for the functions  *)
(* that read through a Buffer, off the cursor offset they leave behind.    *)
(* TLC integers are 32 bits wide, so the inputs keep u32 fields below 2^31.*)
(***************************************************************************)
EXTENDS Integers, Sequences, FiniteSets, TLC

VARIABLES
    overflow_checks, \* build profile: TRUE = arithmetic overflow panics (debug),
                     \* FALSE = it wraps (release)
    msg,             \* the ClientMsg built by the caller
    wire,            \* the byte buffer on hand
    origin,          \* where wire comes from: "none", "encode", "raw"
    encoded,         \* Result of ClientMsg::encode(msg)
    cut,             \* how many bytes of wire the last decode was given
    decoded,         \* Result of ClientMsg::decode(wire[..cut])
    reencoded,       \* Result of ClientMsg::encode(decoded message)
    opt,             \* one option handed to encode_one / read by parse_one
    optwire,         \* the bytes parse_one runs over
    optenc,          \* Result of encode_one(opt)
    optdec,          \* Result of parse_one(optwire)
    optreenc,        \* Result of encode_one(parsed option)
    lhs, rhs,        \* the two option sequences handed to compare_options
    cmp,             \* Result of compare_options(lhs, rhs)
    cmp_rev,         \* Result of compare_options(rhs, lhs)
    msg_eq,          \* ClientMsg{t, x, lhs} == ClientMsg{t, x, rhs}
    raw,             \* the slice a Buffer was made from
    buf_data,        \* Buffer.data (Buffer.len is its length)
    buf_offset,      \* Buffer.offset
    last,            \* the last call on the Buffer: what, with what, the offset
                     \* before it, its Result
    loop_in,         \* the bytes parse_options is called on
    stack,           \* the calls of parse_options in progress, outermost first:
                     \* the Buffer of each, where its current option starts
                     \* and where it is declared to end
    loop             \* "idle", "running", or how the outermost call ended

vars == <<overflow_checks, msg, wire, origin, encoded, cut, decoded, reencoded,
          opt, optwire, optenc, optdec, optreenc, lhs, rhs, cmp, cmp_rev, msg_eq,
          raw, buf_data, buf_offset, last, loop_in, stack, loop>>

msgVars == <<msg, wire, origin, encoded, cut, decoded, reencoded>>
optVars == <<opt, optwire, optenc, optdec, optreenc>>
cmpVars == <<lhs, rhs, cmp, cmp_rev, msg_eq>>
bufVars == <<raw, buf_data, buf_offset, last>>
loopVars == <<loop_in, stack, loop>>

-----------------------------------------------------------------------------
(* Program constants *)

IPV6_SIZE == 16
OPTION_CLIENTID == 1
OPTION_SERVERID == 2
OPTION_IA_NA == 3
OPTION_IA_TA == 4
OPTION_IAADDR == 5
OPTION_ORO == 6
OPTION_PREFERENCE == 7
OPTION_ELAPSED_TIME == 8
OPTION_RELAY_MSG == 9
OPTION_AUTH == 11
OPTION_UNICAST == 12
OPTION_STATUS_CODE == 13
OPTION_RAPID_COMMIT == 14
OPTION_USER_CLASS == 15
OPTION_VENDOR_CLASS == 16
OPTION_VENDOR_OPTS == 17
OPTION_INTERFACE_ID == 18
OPTION_RECONF_MSG == 19
OPTION_RECONF_ACCEPT == 20
OPTION_DNS_SERVERS == 23
OPTION_DOMAIN_LIST == 24

\* the values of a u8 and of a u16 (`as u8`, `as u16` reduce modulo these)
U8Modulus == 256
U16Modulus == 65536
\* tx_id & 0xffffff
TxIdModulus == 16777216
\* size_of::<usize>() on the 64-bit targets the crate is built for
UsizeBytes == 8
\* usize arithmetic wraps modulo 2^64; the model keeps a wrapped value as the
\* difference plus 2^30, which like the real value exceeds every buffer length
\* and every length bound it is compared with
UsizeWrap == 2^30

\* MsgType: the discriminants 1..13
MsgTypes == 1..13
\* StatusCode: the discriminants 0..5
StatusCodes == 0..5

-----------------------------------------------------------------------------
(* Results *)

NoVal == <<>>
Ok(v, o) == [err |-> "Ok", val |-> v, off |-> o]
Err(e, o) == [err |-> e, val |-> NoVal, off |-> o]
ErrWith(e, v, o) == [err |-> e, val |-> v, off |-> o]
IsOk(r) == r.err = "Ok"
\* an arithmetic overflow under overflow checks, or an out-of-range index
Panic(o) == [err |-> "Panic", val |-> NoVal, off |-> o]
\* no call made yet
Idle == [err |-> "Idle", val |-> NoVal, off |-> 0]
\* no Buffer made yet
NoCall == [op |-> "none", arg |-> 0, before |-> 0, res |-> Idle]

\* a - b on usize: the caller has dealt with the panic of a checked build
wrapping_sub(a, b) == IF a >= b THEN a - b ELSE a - b + UsizeWrap

-----------------------------------------------------------------------------
(* Big-endian helpers: to_be_bytes and the shifts of the readers *)

u16_to_be_bytes(x) == <<x \div 256, x % 256>>
u32_to_be_bytes(x) ==
    <<x \div 16777216, (x \div 65536) % 256, (x \div 256) % 256, x % 256>>
\* usize::to_be_bytes: UsizeBytes bytes, the value in the low ones
usize_to_be_bytes(x) ==
    [i \in 1..(UsizeBytes - 4) |-> 0] \o u32_to_be_bytes(x)

RECURSIVE Flatten(_)
Flatten(ss) == IF ss = <<>> THEN <<>> ELSE Head(ss) \o Flatten(Tail(ss))

-----------------------------------------------------------------------------
(* buffer.rs: Buffer { data, len, offset }.  data is immutable and len is  *)
(* data.len(), so a cursor is the pair (data, off).                        *)

left(data, off) == IF off < Len(data) THEN Len(data) - off ELSE 0

check_size(data, off, size) ==
    IF left(data, off) < size THEN "TooShort" ELSE "Ok"

\* set_offset without its bounds check: the fault C4_TruncationAmended detects
set_offset_unchecked(data, off, offset) == Ok(NoVal, offset)

set_offset(data, off, offset) ==
    IF offset > Len(data) THEN Err("TooShort", off) ELSE Ok(NoVal, offset)

get_bytes(data, off, bytes) ==
    IF check_size(data, off, bytes) # "Ok" THEN Err("TooShort", off)
    ELSE Ok(SubSeq(data, off + 1, off + bytes), off + bytes)

get_32(data, off) ==
    IF check_size(data, off, 4) # "Ok" THEN Err("TooShort", off)
    ELSE Ok(data[off + 1] * 16777216 + data[off + 2] * 65536
            + data[off + 3] * 256 + data[off + 4], off + 4)

get_24(data, off) ==
    IF check_size(data, off, 4) # "Ok" THEN Err("TooShort", off)
    ELSE Ok(data[off + 1] * 65536 + data[off + 2] * 256 + data[off + 3], off + 3)

\* get_16 that takes what is left when less than two bytes are left
get_16_partial(data, off) ==
    IF check_size(data, off, 2) # "Ok" THEN Err("TooShort", off + left(data, off))
    ELSE Ok(data[off + 1] * 256 + data[off + 2], off + 2)

get_16(data, off) ==
    IF check_size(data, off, 2) # "Ok" THEN Err("TooShort", off)
    ELSE Ok(data[off + 1] * 256 + data[off + 2], off + 2)

get_8(data, off) ==
    IF check_size(data, off, 1) # "Ok" THEN Err("TooShort", off)
    ELSE Ok(data[off + 1], off + 1)

\* An Ipv6Addr is its eight 16-bit words
get_ipv6addr(data, off) ==
    LET x == get_bytes(data, off, 16) IN
    IF ~IsOk(x) THEN x
    ELSE Ok([i \in 1..8 |-> x.val[2 * i - 1] * 256 + x.val[2 * i]], x.off)

\* Ipv6Addr::octets
octets(addr) == [i \in 1..16 |-> IF i % 2 = 1 THEN addr[(i + 1) \div 2] \div 256
                                              ELSE addr[i \div 2] % 256]

-----------------------------------------------------------------------------
(* options.rs: values.  A Dhcpv6Option is a record whose field t names the *)
(* enum variant; a String is the sequence of its characters' code points.  *)
(* The payload field of a variant is named after what it holds, so that    *)
(* fields of one name hold values of one type.                             *)

ClientId(d) == [t |-> "ClientId", duid |-> d]
ServerId(d) == [t |-> "ServerId", duid |-> d]
IaNa(iaid, t1, t2, options) ==
    [t |-> "IaNa", iaid |-> iaid, t1 |-> t1, t2 |-> t2, options |-> options]
IaTa(iaid, options) == [t |-> "IaTa", iaid |-> iaid, options |-> options]
IaAddr(addr, preferred, valid, options) ==
    [t |-> "IaAddr", addr |-> addr, preferred_lifetime |-> preferred,
     valid_lifetime |-> valid, options |-> options]
Oro(x) == [t |-> "Oro", codes |-> x]
Preference(x) == [t |-> "Preference", value |-> x]
ElapsedTime(x) == [t |-> "ElapsedTime", value |-> x]
RelayMsgOpt(x) == [t |-> "RelayMsg", data |-> x]
Auth == [t |-> "Auth"]
Unicast(a) == [t |-> "Unicast", addr |-> a]
StatusCodeOpt(code, m) == [t |-> "StatusCode", code |-> code, msg |-> m]
RapidCommit == [t |-> "RapidCommit"]
ClassData(len, data) == [len |-> len, data |-> data]
UserClass(x) == [t |-> "UserClass", classes |-> x]
VendorClass(en, x) ==
    [t |-> "VendorClass", enterprise_number |-> en, classes |-> x]
VendorOpts(en, x) == [t |-> "VendorOpts", enterprise_number |-> en, data |-> x]
InterfaceId(x) == [t |-> "InterfaceId", data |-> x]
ReconfMsg(x) == [t |-> "ReconfMsg", value |-> x]
ReconfAccept == [t |-> "ReconfAccept"]
DnsServers(x) == [t |-> "DnsServers", addrs |-> x]
DomainList(x) == [t |-> "DomainList", names |-> x]
Other(code, len, data) == [t |-> "Other", code |-> code, len |-> len, data |-> data]

\* impl From<&Dhcpv6Option> for u16
option_code(o) ==
    CASE o.t = "ClientId" -> OPTION_CLIENTID
      [] o.t = "ServerId" -> OPTION_SERVERID
      [] o.t = "IaNa" -> OPTION_IA_NA
      [] o.t = "IaTa" -> OPTION_IA_TA
      [] o.t = "IaAddr" -> OPTION_IAADDR
      [] o.t = "Oro" -> OPTION_ORO
      [] o.t = "Preference" -> OPTION_PREFERENCE
      [] o.t = "ElapsedTime" -> OPTION_ELAPSED_TIME
      [] o.t = "RelayMsg" -> OPTION_RELAY_MSG
      [] o.t = "Auth" -> OPTION_AUTH
      [] o.t = "Unicast" -> OPTION_UNICAST
      [] o.t = "StatusCode" -> OPTION_STATUS_CODE
      [] o.t = "RapidCommit" -> OPTION_RAPID_COMMIT
      [] o.t = "UserClass" -> OPTION_USER_CLASS
      [] o.t = "VendorClass" -> OPTION_VENDOR_CLASS
      [] o.t = "VendorOpts" -> OPTION_VENDOR_OPTS
      [] o.t = "InterfaceId" -> OPTION_INTERFACE_ID
      [] o.t = "ReconfMsg" -> OPTION_RECONF_MSG
      [] o.t = "ReconfAccept" -> OPTION_RECONF_ACCEPT
      [] o.t = "DnsServers" -> OPTION_DNS_SERVERS
      [] o.t = "DomainList" -> OPTION_DOMAIN_LIST
      [] o.t = "Other" -> o.code

-----------------------------------------------------------------------------
(* DUIDs *)

DuidLLT_new(hw_type, time, ll) ==
    IF Len(ll) <= 120
    THEN Ok([v |-> "Llt", type_code |-> 1, hw_type |-> hw_type, time |-> time,
             link_layer |-> ll], 0)
    ELSE ErrWith("BadOption", "link-layer address too long", 0)

DuidEn_new(enterprise_code, id) ==
    IF Len(id) <= 120
    THEN Ok([v |-> "En", type_code |-> 2, enterprise_code |-> enterprise_code,
             identifier |-> id], 0)
    ELSE ErrWith("BadOption", "identifier too long", 0)

DuidLL_new(hw_type, ll) ==
    IF Len(ll) <= 124
    THEN Ok([v |-> "Ll", type_code |-> 3, hw_type |-> hw_type, link_layer |-> ll], 0)
    ELSE ErrWith("BadOption", "link-layer address too long", 0)

DuidLLT_parse(len, data, off) ==
    IF len < 7 THEN Err("TooShort", off)
    ELSE LET hw == get_16(data, off) IN
         IF ~IsOk(hw) THEN hw
         ELSE LET tm == get_32(data, hw.off) IN
              IF ~IsOk(tm) THEN tm
              ELSE LET ll == get_bytes(data, tm.off, len - 6) IN
                   IF ~IsOk(ll) THEN ll
                   ELSE Ok([v |-> "Llt", type_code |-> 1, hw_type |-> hw.val,
                            time |-> tm.val, link_layer |-> ll.val], ll.off)

DuidLLT_encode(d) ==
    u16_to_be_bytes(d.type_code) \o u16_to_be_bytes(d.hw_type)
        \o u32_to_be_bytes(d.time) \o d.link_layer

DuidEn_parse(len, data, off) ==
    IF len < 5 THEN Err("TooShort", off)
    ELSE LET en == get_32(data, off) IN
         IF ~IsOk(en) THEN en
         ELSE LET id == get_bytes(data, en.off, len - 4) IN
              IF ~IsOk(id) THEN id
              ELSE Ok([v |-> "En", type_code |-> 2, enterprise_code |-> en.val,
                       identifier |-> id.val], id.off)

DuidEn_encode(d) ==
    u16_to_be_bytes(d.type_code) \o u32_to_be_bytes(d.enterprise_code)
        \o d.identifier

DuidLL_parse(len, data, off) ==
    IF len < 3 THEN Err("TooShort", off)
    ELSE LET hw == get_16(data, off) IN
         IF ~IsOk(hw) THEN hw
         ELSE IF len < 6 /\ overflow_checks THEN Panic(hw.off)
         ELSE LET ll == get_bytes(data, hw.off, wrapping_sub(len, 6)) IN
              IF ~IsOk(ll) THEN ll
              ELSE Ok([v |-> "Ll", type_code |-> 3, hw_type |-> hw.val,
                       link_layer |-> ll.val], ll.off)

DuidLL_encode(d) ==
    u16_to_be_bytes(d.type_code) \o u16_to_be_bytes(d.hw_type) \o d.link_layer

Duid_parse(len, data, off) ==
    LET tc == get_16(data, off) IN
    IF ~IsOk(tc) THEN tc
    ELSE IF len < 2 /\ overflow_checks THEN Panic(tc.off)
    ELSE LET remaining == wrapping_sub(len, 2) IN
         IF remaining <= 128
         THEN CASE tc.val = 1 -> DuidLLT_parse(remaining, data, tc.off)
                [] tc.val = 2 -> DuidEn_parse(remaining, data, tc.off)
                [] tc.val = 3 -> DuidLL_parse(remaining, data, tc.off)
                [] OTHER -> ErrWith("BadOption", "invalid DUID type", tc.off)
         ELSE ErrWith("BadOption", "duid to long", tc.off)

Duid_encode(d) ==
    CASE d.v = "Llt" -> DuidLLT_encode(d)
      [] d.v = "En" -> DuidEn_encode(d)
      [] d.v = "Ll" -> DuidLL_encode(d)

-----------------------------------------------------------------------------
(* Plain vectors *)

VecU8_parse(len, data, off) == get_bytes(data, off, len)

\* the loop pushes len / 2 values, each read by get_16: it fails, with
\* TooShort, exactly when fewer than 2 * (len / 2) bytes are left
VecU16_parse(len, data, off) ==
    LET cnt == len \div 2 IN
    IF left(data, off) < 2 * cnt THEN Err("TooShort", off)
    ELSE Ok([i \in 1..cnt |-> get_16(data, off + 2 * (i - 1)).val], off + 2 * cnt)

VecU16_encode(x) ==
    [i \in 1..(2 * Len(x)) |-> IF i % 2 = 1 THEN x[(i + 1) \div 2] \div 256
                                          ELSE x[i \div 2] % 256]

Ipv6Addr_parse(len, data, off) ==
    IF len < IPV6_SIZE THEN Err("TooShort", off) ELSE get_ipv6addr(data, off)

VecIpv6Addr_parse(len, data, off) ==
    LET cnt == len \div IPV6_SIZE IN
    IF cnt * IPV6_SIZE # len THEN Err("TooShort", off)
    ELSE IF left(data, off) < IPV6_SIZE * cnt THEN Err("TooShort", off)
    ELSE Ok([i \in 1..cnt |-> get_ipv6addr(data, off + IPV6_SIZE * (i - 1)).val],
            off + IPV6_SIZE * cnt)

VecIpv6Addr_encode(x) == Flatten([i \in 1..Len(x) |-> octets(x[i])])

-----------------------------------------------------------------------------
(* Status code, class data, vendor options *)

StatusCodeOption_parse(len, data, off) ==
    LET c == get_16(data, off) IN
    IF ~IsOk(c) THEN c
    ELSE IF c.val \notin StatusCodes THEN ErrWith("Other", "invalid status code", c.off)
    ELSE IF len < 2 /\ overflow_checks THEN Panic(c.off)
    ELSE LET m == get_bytes(data, c.off, wrapping_sub(len, 2)) IN
         IF ~IsOk(m) THEN m
         ELSE Ok(StatusCodeOpt(c.val, m.val), m.off)

StatusCodeOption_encode(o) == u16_to_be_bytes(o.code) \o o.msg

\* the while loop over class_buf, a Buffer of its own
RECURSIVE class_loop(_, _)
class_loop(cdata, coff) ==
    IF left(cdata, coff) = 0 THEN Ok(<<>>, coff)
    ELSE LET l == get_16(cdata, coff) IN
         IF ~IsOk(l) THEN l
         ELSE LET d == get_bytes(cdata, l.off, l.val) IN
              IF ~IsOk(d) THEN d
              ELSE LET rest == class_loop(cdata, d.off) IN
                   IF ~IsOk(rest) THEN rest
                   ELSE Ok(<<ClassData(l.val, d.val)>> \o rest.val, rest.off)

VecClassData_parse(len, data, off) ==
    LET d == get_bytes(data, off, len) IN
    IF ~IsOk(d) THEN d
    ELSE LET v == class_loop(d.val, 0) IN
         IF ~IsOk(v) THEN Err(v.err, d.off) ELSE Ok(v.val, d.off)

VecClassData_encode(x) ==
    Flatten([i \in 1..Len(x) |-> usize_to_be_bytes(x[i].len) \o x[i].data])

VendorClassOption_parse(len, data, off) ==
    LET en == get_32(data, off) IN
    IF ~IsOk(en) THEN en
    ELSE IF len < 4 /\ overflow_checks THEN Panic(en.off)
    ELSE LET d == VecClassData_parse(wrapping_sub(len, 4), data, en.off) IN
         IF ~IsOk(d) THEN d
         ELSE Ok(VendorClass(en.val, d.val), d.off)

VendorClassOption_encode(o) ==
    u32_to_be_bytes(o.enterprise_number)
        \o Flatten([i \in 1..Len(o.classes) |->
                        usize_to_be_bytes(o.classes[i].len) \o o.classes[i].data])

VendorOption_parse(len, data, off) ==
    LET en == get_32(data, off) IN
    IF ~IsOk(en) THEN en
    ELSE IF len < 4 /\ overflow_checks THEN Panic(en.off)
    ELSE LET d == get_bytes(data, en.off, wrapping_sub(len, 4)) IN
         IF ~IsOk(d) THEN d
         ELSE Ok(VendorOpts(en.val, d.val), d.off)

VendorOption_encode(o) == u32_to_be_bytes(o.enterprise_number) \o o.data

-----------------------------------------------------------------------------
(* Domain names *)

is_ascii(c) == c < 128
is_ascii_alphabetic(c) == (c >= 65 /\ c <= 90) \/ (c >= 97 /\ c <= 122)
\* char::is_alphanumeric, on the characters the loop lets through to it (ASCII)
is_alphanumeric(c) == is_ascii_alphabetic(c) \/ (c >= 48 /\ c <= 57)
Dot == 46

\* str::len: the length of the UTF-8 encoding
utf8_len_char(c) == IF c < 128 THEN 1 ELSE IF c < 2048 THEN 2 ELSE IF c < 65536 THEN 3 ELSE 4
str_len(s) ==
    Len(s) + Cardinality({i \in 1..Len(s) : utf8_len_char(s[i]) >= 2})
           + Cardinality({i \in 1..Len(s) : utf8_len_char(s[i]) >= 3})
           + Cardinality({i \in 1..Len(s) : utf8_len_char(s[i]) >= 4})

\* one turn of the for loop of domain_validate on the character c, with
\* label_size as it is before the turn: "Ok" or the text of the error
validate_char(c, first, label_size) ==
    IF ~is_ascii(c) THEN "non-ascii domain name"
    ELSE IF first /\ ~is_ascii_alphabetic(c) THEN "domain doesn't start with a letter"
    ELSE IF c = Dot THEN "Ok"
    ELSE IF label_size + 1 > 63 THEN "domain lable too large"
    ELSE IF ~(is_alphanumeric(c) /\ c # 45) THEN "invalid domain name"
    ELSE "Ok"

\* the for loop of domain_validate from character i on, a label at a time:
\* k is the first character from i on that ends the loop or is a dot
RECURSIVE validate_loop(_, _, _, _)
validate_loop(domain, i, first, label_size) ==
    LET turn(j) == validate_char(domain[j], first /\ j = i, label_size + (j - i))
        stops == {j \in i..Len(domain) : domain[j] = Dot \/ turn(j) # "Ok"} IN
    IF stops = {} THEN "Ok"
    ELSE LET k == CHOOSE j \in stops : \A x \in stops : j <= x IN
         IF turn(k) # "Ok" THEN turn(k) ELSE validate_loop(domain, k + 1, FALSE, 0)

\* domain_validate without `domain.len() > 253`
domain_validate_lax(domain) == validate_loop(domain, 1, TRUE, 0)

\* "Ok", or the text of the BadOption error
domain_validate(domain) ==
    IF str_len(domain) > 253 THEN "domain name too large"
    ELSE validate_loop(domain, 1, TRUE, 0)

\* str::split('.'): the pieces between the dots, empty ones included; acc is
\* what precedes s in the piece s starts in
RECURSIVE split_dot(_, _)
split_dot(s, acc) ==
    LET dots == {i \in 1..Len(s) : s[i] = Dot} IN
    IF dots = {} THEN <<acc \o s>>
    ELSE LET d == CHOOSE i \in dots : \A x \in dots : i <= x IN
         <<acc \o SubSeq(s, 1, d - 1)>> \o split_dot(SubSeq(s, d + 1, Len(s)), <<>>)

\* the inner for loop of domain_list_encode: (bytes, labels) of one domain
RECURSIVE encode_labels(_)
encode_labels(labels) ==
    IF labels = <<>> THEN <<>>
    ELSE LET label == Head(labels) IN
         (IF label # <<>> THEN <<Len(label) % U8Modulus>> \o label ELSE <<>>)
             \o encode_labels(Tail(labels))

RECURSIVE domain_list_encode(_)
domain_list_encode(list) ==
    IF list = <<>> THEN Ok(<<>>, 0)
    ELSE LET domain == Head(list)
             valid == domain_validate(domain) IN
         IF valid # "Ok" THEN ErrWith("BadOption", valid, 0)
         ELSE LET v == encode_labels(split_dot(domain, <<>>))
                  rest == domain_list_encode(Tail(list)) IN
              IF ~IsOk(rest) THEN rest
              ELSE Ok(v \o (IF v # <<>> THEN <<0>> ELSE <<>>) \o rest.val, 0)

\* the while loop of domain_parse: val is <<domain, remainder>>
RECURSIVE domain_parse_loop(_, _)
domain_parse_loop(buf, domain) ==
    IF buf = <<>> THEN Ok(<<domain, buf>>, 0)
    ELSE LET len == Head(buf)
             b == Tail(buf) IN
         IF len = 0 THEN Ok(<<domain, b>>, 0)
         ELSE IF len > Len(b) THEN ErrWith("BadOption", "domain option overflow", 0)
         ELSE domain_parse_loop(SubSeq(b, len + 1, Len(b)),
                  (IF domain # <<>> THEN Append(domain, Dot) ELSE domain)
                      \o SubSeq(b, 1, len))

domain_parse(buf) ==
    LET r == domain_parse_loop(buf, <<>>) IN
    IF ~IsOk(r) THEN r
    ELSE LET valid == domain_validate(r.val[1]) IN
         IF valid # "Ok" THEN ErrWith("BadOption", valid, 0) ELSE r

RECURSIVE domain_list_loop(_)
domain_list_loop(bytes) ==
    IF bytes = <<>> THEN Ok(<<>>, 0)
    ELSE LET r == domain_parse(bytes) IN
         IF ~IsOk(r) THEN r
         ELSE IF str_len(r.val[1]) > 255 THEN ErrWith("BadOption", "domain too large", 0)
         ELSE LET rest == domain_list_loop(r.val[2]) IN
              IF ~IsOk(rest) THEN rest
              ELSE Ok(<<r.val[1]>> \o rest.val, 0)

domain_list_parse(len, data, off) ==
    LET d == get_bytes(data, off, len) IN
    IF ~IsOk(d) THEN d
    ELSE LET l == domain_list_loop(d.val) IN
         IF ~IsOk(l) THEN ErrWith(l.err, l.val, d.off) ELSE Ok(l.val, d.off)

\* other_option taking all that is left of the buffer instead of len bytes:
\* the fault C5_UnknownPreserved detects
other_option_rest(code, len, data, off) ==
    LET d == get_bytes(data, off, left(data, off)) IN
    IF ~IsOk(d) THEN d ELSE Ok(Other(code, len, d.val), d.off)

other_option(code, len, data, off) ==
    LET d == get_bytes(data, off, len) IN
    IF ~IsOk(d) THEN d ELSE Ok(Other(code, len, d.val), d.off)

-----------------------------------------------------------------------------
(* The TLV engine: encode *)

RECURSIVE encode_one(_), encode_options(_)

IaNaOption_encode(o) ==
    LET n == encode_options(o.options) IN
    IF ~IsOk(n) THEN n
    ELSE Ok(u32_to_be_bytes(o.iaid) \o u32_to_be_bytes(o.t1)
            \o u32_to_be_bytes(o.t2) \o n.val, 0)

IaTaOption_encode(o) ==
    LET n == encode_options(o.options) IN
    IF ~IsOk(n) THEN n ELSE Ok(u32_to_be_bytes(o.iaid) \o n.val, 0)

IaAddrOption_encode(o) ==
    LET n == encode_options(o.options) IN
    IF ~IsOk(n) THEN n
    ELSE Ok(octets(o.addr) \o u32_to_be_bytes(o.preferred_lifetime)
            \o u32_to_be_bytes(o.valid_lifetime) \o n.val, 0)

\* the match of encode_one: the payload of the option
encode_data(o) ==
    CASE o.t \in {"ClientId", "ServerId"} -> Ok(Duid_encode(o.duid), 0)
      [] o.t = "IaNa" -> IaNaOption_encode(o)
      [] o.t = "IaTa" -> IaTaOption_encode(o)
      [] o.t = "IaAddr" -> IaAddrOption_encode(o)
      [] o.t = "Oro" -> Ok(VecU16_encode(o.codes), 0)
      [] o.t = "Preference" -> Ok(<<o.value>>, 0)
      [] o.t = "ElapsedTime" -> Ok(u16_to_be_bytes(o.value), 0)
      [] o.t = "RelayMsg" -> Ok(o.data, 0)
      [] o.t = "Auth" -> ErrWith("Unimplemented", "Authentication option", 0)
      [] o.t = "Unicast" -> Ok(octets(o.addr), 0)
      [] o.t = "StatusCode" -> Ok(StatusCodeOption_encode(o), 0)
      [] o.t = "RapidCommit" -> Ok(<<>>, 0)
      [] o.t = "UserClass" -> Ok(VecClassData_encode(o.classes), 0)
      [] o.t = "VendorClass" -> Ok(VendorClassOption_encode(o), 0)
      [] o.t = "VendorOpts" -> Ok(VendorOption_encode(o), 0)
      [] o.t = "InterfaceId" -> Ok(o.data, 0)
      [] o.t = "ReconfMsg" -> Ok(<<o.value>>, 0)
      [] o.t = "ReconfAccept" -> Ok(<<>>, 0)
      [] o.t = "DnsServers" -> Ok(VecIpv6Addr_encode(o.addrs), 0)
      [] o.t = "DomainList" -> domain_list_encode(o.names)
      [] o.t = "Other" -> Ok(o.data, 0)

encode_one(o) ==
    LET data == encode_data(o) IN
    IF ~IsOk(data) THEN data
    ELSE Ok(u16_to_be_bytes(option_code(o))
            \o u16_to_be_bytes(Len(data.val) % U16Modulus) \o data.val, 0)

encode_options(opts) ==
    IF opts = <<>> THEN Ok(<<>>, 0)
    ELSE LET one == encode_one(Head(opts)) IN
         IF ~IsOk(one) THEN one
         ELSE LET rest == encode_options(Tail(opts)) IN
              IF ~IsOk(rest) THEN rest ELSE Ok(one.val \o rest.val, 0)

-----------------------------------------------------------------------------
(* The TLV engine: decode *)

RECURSIVE parse_one(_, _), parse_options(_, _)

\* a Buffer of its own over the len bytes taken from buf
nested_result(r, off) ==
    IF ~IsOk(r) THEN ErrWith(r.err, r.val, off) ELSE Ok(r.val, off)

parse_nested_options(data, off, len) ==
    LET d == get_bytes(data, off, len) IN
    IF ~IsOk(d) THEN d ELSE nested_result(parse_options(d.val, 0), d.off)

\* `options: parse_nested_options(buf, len - k)?` in the struct a container
\* parser returns: o is the struct without its options
with_options(o, n) ==
    IF ~IsOk(n) THEN n ELSE Ok([o EXCEPT !.options = n.val], n.off)

IaNaOption_parse(len, data, off) ==
    LET iaid == get_32(data, off) IN
    IF ~IsOk(iaid) THEN iaid
    ELSE LET t1 == get_32(data, iaid.off) IN
         IF ~IsOk(t1) THEN t1
         ELSE LET t2 == get_32(data, t1.off) IN
              IF ~IsOk(t2) THEN t2
              ELSE IF len < 12 /\ overflow_checks THEN Panic(t2.off)
              ELSE with_options(IaNa(iaid.val, t1.val, t2.val, <<>>),
                       parse_nested_options(data, t2.off, wrapping_sub(len, 12)))

IaTaOption_parse(len, data, off) ==
    LET iaid == get_32(data, off) IN
    IF ~IsOk(iaid) THEN iaid
    ELSE IF len < 4 /\ overflow_checks THEN Panic(iaid.off)
    ELSE with_options(IaTa(iaid.val, <<>>),
                      parse_nested_options(data, iaid.off, wrapping_sub(len, 4)))

IaAddrOption_parse(len, data, off) ==
    LET addr == get_ipv6addr(data, off) IN
    IF ~IsOk(addr) THEN addr
    ELSE LET pl == get_32(data, addr.off) IN
         IF ~IsOk(pl) THEN pl
         ELSE LET vl == get_32(data, pl.off) IN
              IF ~IsOk(vl) THEN vl
              ELSE IF len < 24 /\ overflow_checks THEN Panic(vl.off)
              ELSE with_options(IaAddr(addr.val, pl.val, vl.val, <<>>),
                       parse_nested_options(data, vl.off, wrapping_sub(len, 24)))

\* wrap the value a variant parser returned into the enum variant
Wrap(r, F(_)) == IF IsOk(r) THEN Ok(F(r.val), r.off) ELSE r

\* the match of parse_one
parse_variant(code, len, data, off) ==
    CASE code = OPTION_CLIENTID -> Wrap(Duid_parse(len, data, off), ClientId)
      [] code = OPTION_SERVERID -> Wrap(Duid_parse(len, data, off), ServerId)
      [] code = OPTION_IA_NA -> IaNaOption_parse(len, data, off)
      [] code = OPTION_IA_TA -> IaTaOption_parse(len, data, off)
      [] code = OPTION_IAADDR -> IaAddrOption_parse(len, data, off)
      [] code = OPTION_ORO -> Wrap(VecU16_parse(len, data, off), Oro)
      [] code = OPTION_PREFERENCE -> Wrap(get_8(data, off), Preference)
      [] code = OPTION_ELAPSED_TIME -> Wrap(get_16(data, off), ElapsedTime)
      [] code = OPTION_RELAY_MSG -> Wrap(VecU8_parse(len, data, off), RelayMsgOpt)
      [] code = OPTION_AUTH -> ErrWith("Unimplemented", "Authentication option", off)
      [] code = OPTION_UNICAST -> Wrap(get_ipv6addr(data, off), Unicast)
      [] code = OPTION_STATUS_CODE -> StatusCodeOption_parse(len, data, off)
      [] code = OPTION_RAPID_COMMIT -> Ok(RapidCommit, off)
      [] code = OPTION_USER_CLASS -> Wrap(VecClassData_parse(len, data, off), UserClass)
      [] code = OPTION_VENDOR_CLASS -> VendorClassOption_parse(len, data, off)
      [] code = OPTION_VENDOR_OPTS -> VendorOption_parse(len, data, off)
      [] code = OPTION_INTERFACE_ID -> Wrap(VecU8_parse(len, data, off), InterfaceId)
      [] code = OPTION_RECONF_MSG -> Wrap(get_8(data, off), ReconfMsg)
      [] code = OPTION_RECONF_ACCEPT -> Ok(ReconfAccept, off)
      [] code = OPTION_DNS_SERVERS -> Wrap(VecIpv6Addr_parse(len, data, off), DnsServers)
      [] code = OPTION_DOMAIN_LIST -> Wrap(domain_list_parse(len, data, off), DomainList)
      [] OTHER -> other_option(code, len, data, off)

\* parse_one with the declared end looked at before the result of the match
skip_to_next_first(data, next, o) ==
    LET s == set_offset(data, o.off, next) IN
    IF ~IsOk(s) THEN s
    ELSE IF ~IsOk(o) THEN o ELSE Ok(o.val, s.off)

\* parse_one that leaves the cursor where the variant parser left it
skip_to_next_stay(data, next, o) ==
    IF ~IsOk(o) THEN o
    ELSE LET s == set_offset(data, o.off, next) IN
         IF ~IsOk(s) THEN s ELSE Ok(o.val, o.off)

\* parse_one that puts the cursor back where the header started
skip_to_next_rewind(data, next, o) ==
    IF ~IsOk(o) THEN o
    ELSE LET s == set_offset(data, o.off, next) IN
         IF ~IsOk(s) THEN s ELSE Ok(o.val, IF o.off >= 4 THEN o.off - 4 ELSE 0)

\* the end of parse_one: o is what the match returned, next the offset the
\* header declared; `buf.set_offset(next)?; Ok(opt)`
skip_to_next(data, next, o) ==
    IF ~IsOk(o) THEN o
    ELSE LET s == set_offset(data, o.off, next) IN
         IF ~IsOk(s) THEN s ELSE Ok(o.val, s.off)

parse_one(data, off) ==
    LET code == get_16(data, off) IN
    IF ~IsOk(code) THEN code
    ELSE LET len == get_16(data, code.off) IN
         IF ~IsOk(len) THEN len
         ELSE skip_to_next(data, len.off + len.val,
                           parse_variant(code.val, len.val, data, len.off))

\* options.push(v) before the rest of the loop runs
push_front(v, rest) ==
    IF ~IsOk(rest) THEN rest ELSE Ok(<<v>> \o rest.val, rest.off)

\* the body of the while loop: one is what parse_one returned
parse_more(data, one) ==
    IF ~IsOk(one) THEN one
    ELSE push_front(one.val, parse_options(data, one.off))

parse_options(data, off) ==
    IF left(data, off) = 0 THEN Ok(<<>>, off)
    ELSE parse_more(data, parse_one(data, off))

-----------------------------------------------------------------------------
(* Equality: the derived PartialEq of Dhcpv6Option, the hand-written ones  *)
(* of the three containers, and compare_options                            *)

RECURSIVE opt_eq(_, _), compare_options(_, _), compare_loop(_, _, _, _, _)

\* the loops without `to_match.contains(&idx_b)`: an element of b matches again
RECURSIVE compare_loop_rematch(_, _, _, _, _)
compare_loop_rematch(a, b, idx_a, to_find, to_match) ==
    IF idx_a > Len(a) THEN <<to_find, to_match>>
    ELSE LET hits == {idx_b \in 1..Len(b) : opt_eq(a[idx_a], b[idx_b])} IN
         IF hits = {} THEN compare_loop_rematch(a, b, idx_a + 1, to_find, to_match)
         ELSE compare_loop_rematch(a, b, idx_a + 1, to_find \ {idx_a},
                   to_match \ {CHOOSE x \in hits : \A y \in hits : x <= y})

\* compare_options over those loops: the fault C7_CompareIsBagEquality detects
compare_options_rematch(a, b) ==
    IF Len(a) # Len(b)
    THEN ErrWith("Other", [text |-> "option counts differ"], 0)
    ELSE LET r == compare_loop_rematch(a, b, 1, 1..Len(a), 1..Len(a)) IN
         IF r[2] # {} \/ r[1] # {}
         THEN ErrWith("Other", [text |-> "extra options, missing options",
                                extra |-> Cardinality(r[2]),
                                missing |-> Cardinality(r[1])], 0)
         ELSE Ok(NoVal, 0)

\* the loops without `break`: an element of a takes every element it equals
RECURSIVE compare_loop_nobreak(_, _, _, _, _)
compare_loop_nobreak(a, b, idx_a, to_find, to_match) ==
    IF idx_a > Len(a) THEN <<to_find, to_match>>
    ELSE LET hits == {idx_b \in to_match : opt_eq(a[idx_a], b[idx_b])} IN
         IF hits = {} THEN compare_loop_nobreak(a, b, idx_a + 1, to_find, to_match)
         ELSE compare_loop_nobreak(a, b, idx_a + 1, to_find \ {idx_a},
                                   to_match \ hits)

\* compare_options over those loops: the fault C8_MismatchCountsAmended detects
compare_options_nobreak(a, b) ==
    IF Len(a) # Len(b)
    THEN ErrWith("Other", [text |-> "option counts differ"], 0)
    ELSE LET r == compare_loop_nobreak(a, b, 1, 1..Len(a), 1..Len(a)) IN
         IF r[2] # {} \/ r[1] # {}
         THEN ErrWith("Other", [text |-> "extra options, missing options",
                                extra |-> Cardinality(r[2]),
                                missing |-> Cardinality(r[1])], 0)
         ELSE Ok(NoVal, 0)

SetMin(S) == CHOOSE x \in S : \A y \in S : x <= y

\* the two nested for loops, from element idx_a of a on: <<to_find, to_match>>
compare_loop(a, b, idx_a, to_find, to_match) ==
    IF idx_a > Len(a) THEN <<to_find, to_match>>
    ELSE LET hits == {idx_b \in to_match : opt_eq(a[idx_a], b[idx_b])} IN
         IF hits = {} THEN compare_loop(a, b, idx_a + 1, to_find, to_match)
         ELSE compare_loop(a, b, idx_a + 1, to_find \ {idx_a},
                           to_match \ {SetMin(hits)})

\* format!("{} extra options.  {} missing options.", ..): the two numbers
compare_options(a, b) ==
    IF Len(a) # Len(b)
    THEN ErrWith("Other", [text |-> "option counts differ"], 0)
    ELSE LET r == compare_loop(a, b, 1, 1..Len(a), 1..Len(a)) IN
         IF r[2] # {} \/ r[1] # {}
         THEN ErrWith("Other", [text |-> "extra options, missing options",
                                extra |-> Cardinality(r[2]),
                                missing |-> Cardinality(r[1])], 0)
         ELSE Ok(NoVal, 0)

IaNaOption_eq(x, y) ==
    /\ x.iaid = y.iaid
    /\ x.t1 = y.t1
    /\ x.t2 = y.t2
    /\ IsOk(compare_options(x.options, y.options))

IaTaOption_eq(x, y) ==
    x.iaid = y.iaid /\ IsOk(compare_options(x.options, y.options))

IaAddrOption_eq(x, y) ==
    /\ x.addr = y.addr
    /\ x.preferred_lifetime = y.preferred_lifetime
    /\ x.valid_lifetime = y.valid_lifetime
    /\ IsOk(compare_options(x.options, y.options))

\* #[derive(PartialEq)] on Dhcpv6Option
opt_eq(x, y) ==
    IF x.t # y.t THEN FALSE
    ELSE CASE x.t = "IaNa" -> IaNaOption_eq(x, y)
           [] x.t = "IaTa" -> IaTaOption_eq(x, y)
           [] x.t = "IaAddr" -> IaAddrOption_eq(x, y)
           [] OTHER -> x = y

\* Vec<Dhcpv6Option> == Vec<Dhcpv6Option>: element by element, in order
vec_eq(a, b) ==
    Len(a) = Len(b) /\ \A i \in 1..Len(a) : opt_eq(a[i], b[i])

-----------------------------------------------------------------------------
(* lib.rs: ClientMsg *)

ClientMsg(msg_type, tx_id, options) ==
    [msg_type |-> msg_type, tx_id |-> tx_id, options |-> options]

\* ClientMsg::new without `& 0xffffff`: the fault C15_TxIdBelow2p24 detects
ClientMsg_new_unmasked(msg_type, tx_id) == ClientMsg(msg_type, tx_id, <<>>)

\* ClientMsg::new(msg_type, Some(tx_id))
ClientMsg_new(msg_type, tx_id) == ClientMsg(msg_type, tx_id % TxIdModulus, <<>>)

\* #[derive(PartialEq)] on ClientMsg
ClientMsg_eq(x, y) ==
    x.msg_type = y.msg_type /\ x.tx_id = y.tx_id /\ vec_eq(x.options, y.options)

\* decode reading the transaction id before it looks at the message type:
\* the fault C14_UnknownMsgCode detects
ClientMsg_decode_late(buf) ==
    LET code == get_8(buf, 0) IN
    IF ~IsOk(code) THEN code
    ELSE LET tx_id == get_24(buf, code.off) IN
         IF ~IsOk(tx_id) THEN tx_id
         ELSE IF code.val \notin MsgTypes
         THEN ErrWith("UnknownMsgCode", code.val, code.off)
         ELSE with_options(ClientMsg(code.val, tx_id.val, <<>>),
                           parse_options(buf, tx_id.off))

ClientMsg_decode(buf) ==
    LET code == get_8(buf, 0) IN
    IF ~IsOk(code) THEN code
    ELSE IF code.val \notin MsgTypes THEN ErrWith("UnknownMsgCode", code.val, code.off)
    ELSE LET tx_id == get_24(buf, code.off) IN
         IF ~IsOk(tx_id) THEN tx_id
         ELSE with_options(ClientMsg(code.val, tx_id.val, <<>>),
                           parse_options(buf, tx_id.off))

ClientMsg_encode(m) ==
    LET o == encode_options(m.options) IN
    IF ~IsOk(o) THEN o
    ELSE Ok(<<m.msg_type, (m.tx_id \div 65536) % 256, (m.tx_id \div 256) % 256,
              m.tx_id % 256>> \o o.val, 0)

-----------------------------------------------------------------------------
(* Inputs.  The values are those of the fixtures of test.rs where there is *)
(* one, shortened where the length does not matter.                        *)

\* how many options a caller pushes onto one message
MaxOpts == 2
\* how many options each side of a comparison holds
MaxCmpLen == 3

\* fd00:aabb:ccdd:24::7000, fd00:aabb:ccdd:24::658e, 2001:4860:4860::8888
Addr1 == <<64768, 43707, 52445, 36, 0, 0, 0, 28672>>
Addr2 == <<64768, 43707, 52445, 36, 0, 0, 0, 25998>>
Dns1 == <<8193, 18528, 18528, 0, 0, 0, 0, 34952>>

LinkLayer == <<2, 8, 32, 179, 185, 62>>
Llt1 == DuidLLT_new(1, 675358816, LinkLayer).val
Llt2 == DuidLLT_new(1, 675358849, <<62>>).val
LltEmpty == DuidLLT_new(1, 675358816, <<>>).val
En1 == DuidEn_new(9, <<171, 205>>).val
EnEmpty == DuidEn_new(9, <<>>).val
Ll1 == DuidLL_new(1, LinkLayer).val
Ll3 == DuidLL_new(1, <<2, 8, 32>>).val
LlEmpty == DuidLL_new(1, <<>>).val

IaAddr1 == IaAddr(Addr1, 75, 120, <<>>)
IaAddr2 == IaAddr(Addr2, 75, 120, <<>>)

\* "eng", "o.c"
NameEng == <<101, 110, 103>>
NameOc == <<111, 46, 99>>

\* the kinds of option of the fixtures of test.rs
FixtureOptions ==
    {ClientId(Llt1), ServerId(Llt2), IaNa(2, 0, 0, <<>>),
     IaNa(3, 0, 0, <<IaAddr1, IaAddr2>>), Oro(<<7, 23>>), RapidCommit,
     ElapsedTime(0), DnsServers(<<Dns1>>), DomainList(<<NameEng, NameOc>>)}

\* client and server identifiers of every DUID variant and length class
DuidOptions ==
    {ClientId(Ll1), ClientId(Ll3), ServerId(LlEmpty), ServerId(En1),
     ClientId(EnEmpty), ServerId(LltEmpty)}

ClassOptions ==
    {UserClass(<<ClassData(1, <<65>>)>>), UserClass(<<>>),
     VendorClass(9, <<ClassData(2, <<65, 66>>)>>), VendorClass(9, <<>>),
     VendorOpts(9, <<1, 2, 3>>), StatusCodeOpt(3, <<110, 111>>)}

ScalarOptions ==
    {Preference(255), Unicast(Addr1), RelayMsgOpt(<<1, 2>>), InterfaceId(<<7>>),
     ReconfMsg(5), ReconfAccept, Other(10, 2, <<222, 173>>), Other(65535, 0, <<>>)}

ContainerOptions ==
    {IaTa(4, <<IaAddr1>>), IaTa(4, <<>>), IaAddr2,
     IaAddr(Addr1, 1, 2, <<StatusCodeOpt(0, <<>>)>>),
     IaNa(3, 0, 0, <<IaAddr2, IaAddr1>>), Auth}

\* an option-request list whose payload is as long as a u16 can not say
LargeOptions == {Oro([i \in 1..(U16Modulus \div 2) |-> OPTION_AUTH])}

\* a name that starts with a digit
NameDigit == <<49, 97>>

\* options encode_one refuses, alone or inside containers, and one it takes
RejectedOptions ==
    {Auth, IaTa(4, <<Auth>>), IaNa(1, 0, 0, <<IaAddr(Addr1, 1, 2, <<RapidCommit, Auth>>)>>),
     DomainList(<<NameDigit>>), IaTa(4, <<DomainList(<<NameDigit>>), Auth>>), RapidCommit}

\* the options pushed onto one message all come from one of these sets
Families ==
    {FixtureOptions, DuidOptions, ClassOptions, ScalarOptions, ContainerOptions,
     LargeOptions, RejectedOptions}

OptionPool == UNION Families

\* (msg_type, tx_id) handed to ClientMsg::new
HeaderInputs == {<<1, 10689423>>, <<5, 14416578 + TxIdModulus>>, <<13, 0>>}

NoMsg == ClientMsg(0, 0, <<>>)
NoOpt == [t |-> "None"]

\* buffers received from the network: a header alone, options padded beyond
\* what their parser reads, an option shorter than its fixed fields, an
\* unknown option between known ones, unknown message types
RawMessages ==
    {<<1, 163, 27, 143>>,
     <<5, 1, 2, 3, 0, 14, 0, 2, 9, 9, 0, 8, 0, 2, 0, 7>>,
     <<1, 0, 0, 1, 0, 7, 0, 0, 0, 14, 0, 0>>,
     <<1, 0, 0, 1, 0, 3, 0, 4, 0, 0, 0, 1, 0, 0, 0, 0, 0, 0, 0, 0>>,
     <<2, 0, 0, 1, 0, 10, 0, 2, 222, 173, 0, 14, 0, 0>>,
     <<7, 0, 0, 1, 0, 11, 0, 0>>,
     <<0, 0, 0, 1, 0, 14, 0, 0>>,
     <<14, 0, 0, 1, 0, 11, 0, 0>>,
     <<255, 1>>,
     <<7, 0, 0, 1, 0, 11, 255, 255, 1>>,
     <<7, 0, 0, 1, 0, 14, 0, 0, 0, 11, 0, 1, 9>>,
     <<1, 0, 0, 1, 0, 3, 0, 16, 0, 0, 0, 1, 0, 0, 0, 0, 0, 0, 0, 0, 0, 11, 0, 0>>,
     <<1, 0, 0, 1, 0, 4, 0, 36, 0, 0, 0, 4, 0, 5, 0, 28>> \o octets(Addr1)
         \o <<0, 0, 0, 1, 0, 0, 0, 2, 0, 11, 0, 9>>}

\* n bytes of zero
Zeros(n) == [i \in 1..n |-> 0]

\* code(2B) | length(2B) | payload
Tlv(code, payload) ==
    u16_to_be_bytes(code) \o u16_to_be_bytes(Len(payload)) \o payload

\* option codes no parser is registered for, payloads, and what may follow
UnknownCodes == {0, 10, 21, 22, 25, 255, 65535}
RawPayloads == {<<>>, <<222, 173>>, <<0, 14, 0, 0, 1>>}
RawTails == {<<>>, <<9>>, <<0, 14, 0, 0>>}

\* single options as they arrive, alone or followed by further bytes: the
\* unknown ones, whole or cut short, and some known ones; options that
\* declare more than the buffer holds; options that declare less than their
\* fixed fields take; options that declare more than their parser reads;
\* containers, followed by further bytes, whose last nested option runs over
\* the end of the container
RawOptions ==
    {Tlv(c, pl) \o tl : c \in UnknownCodes, pl \in RawPayloads, tl \in RawTails}
        \cup {<<0, 10, 0, 3, 1, 2>>, <<0, 21, 0, 1>>, <<255, 255, 0>>,
              <<0, 14, 0, 0>>, <<0, 8, 0, 2, 0, 7, 9>>, <<0, 11, 0, 0>>}
        \cup {<<0, 11, 0, 9>>, <<0, 13, 0, 8, 0, 6>>, <<0, 1, 0, 16, 0, 9>>,
              <<0, 14, 0, 5>>, <<0, 7, 0, 9, 1>>, <<0, 13, 0, 8, 0, 5, 110>>,
              <<0, 3, 0, 40, 0, 0, 0, 1, 0, 0, 0, 0, 0, 0, 0, 0, 0, 11, 0, 0>>}
        \cup {<<0, 7, 0, 0, 9>>, <<0, 7, 0, 0, 0, 14, 0, 0>>, <<0, 7, 0, 1, 9>>,
              <<0, 7, 0, 1, 9, 0, 14, 0, 0>>, <<0, 8, 0, 2, 0, 7, 0, 14, 0, 0>>,
              <<0, 8, 0, 1, 0, 7>>, <<0, 8, 0, 1, 0, 9>>,
              <<0, 12, 0, 0>> \o octets(Addr1), <<0, 12, 0, 0>> \o octets(Addr2),
              <<0, 19, 0, 0, 5>>, <<0, 19, 0, 0, 6>>,
              <<0, 3, 0, 4, 0, 0, 0, 1, 0, 0, 0, 0, 0, 0, 0, 0>>,
              <<0, 4, 0, 2, 0, 0, 0, 1>>, <<0, 5, 0, 8>> \o octets(Addr1) \o Zeros(8),
              <<0, 1, 0, 1, 0, 1>>, <<0, 13, 0, 1, 0, 0>>,
              <<0, 16, 0, 2, 0, 0, 0, 9>>, <<0, 17, 0, 2, 0, 0, 0, 9>>}
        \cup {<<0, 14, 0, 2, 1, 2>>, <<0, 7, 0, 3, 5, 6, 7>>,
              <<0, 8, 0, 4, 0, 7, 1, 1, 0, 14, 0, 0>>}
        \cup {<<0, 3, 0, 18>> \o Zeros(12) \o <<0, 13, 0, 8, 0, 6, 0, 14, 0, 0>>,
              <<0, 3, 0, 18>> \o Zeros(12) \o <<0, 1, 0, 16, 0, 9, 0, 14, 0, 0>>,
              <<0, 3, 0, 16>> \o Zeros(12) \o <<0, 11, 0, 9, 0, 14, 0, 0>>,
              <<0, 3, 0, 16>> \o Zeros(12) \o <<0, 10, 0, 2, 222, 173>>,
              <<0, 3, 0, 20>> \o Zeros(12) \o <<0, 14, 0, 0, 0, 7, 0, 1, 9>>,
              <<0, 4, 0, 8, 0, 0, 0, 4, 0, 7, 0, 0, 0, 14, 0, 0>>,
              <<0, 4, 0, 8, 0, 0, 0, 4, 0, 7, 0, 0>>,
              <<0, 4, 0, 9, 0, 0, 0, 4, 0, 7, 0, 1, 9, 0, 14, 0, 0>>,
              <<0, 5, 0, 26>> \o octets(Addr1) \o Zeros(8) \o <<0, 14, 0, 0, 0, 14, 0, 0>>}

\* the constructors of the DUIDs called at their bounds and one beyond
NewDuidCalls ==
    <<DuidLLT_new(1, 675358816, Zeros(120)), DuidLLT_new(1, 675358816, Zeros(121)),
      DuidEn_new(9, Zeros(120)), DuidEn_new(9, Zeros(121)),
      DuidLL_new(1, Zeros(124)), DuidLL_new(1, Zeros(125))>>

\* client and server identifiers as they arrive, with payloads of 128, 130
\* and 131 bytes: a timestamp DUID and an enterprise DUID
RawDuidOptions ==
    {Tlv(OPTION_CLIENTID, <<0, 1, 0, 1, 40, 65, 40, 96>> \o Zeros(n)) : n \in {120, 122, 123}}
        \cup {Tlv(OPTION_SERVERID, <<0, 2, 0, 0, 0, 9>> \o Zeros(n)) : n \in {122, 124, 125}}

\* status-code options as they arrive: the six codes that exist and others
RawStatusOptions ==
    {Tlv(OPTION_STATUS_CODE, u16_to_be_bytes(c) \o m) :
        c \in {0, 5, 6, 255, 65535}, m \in {<<>>, <<110, 111>>}}

\* names at the bounds of the grammar and beyond: a label of 63 and of 64
\* bytes, names of 253 and of 254 bytes, a character that is not ASCII, a
\* digit and a dot in front, the empty name, a second label of 63 bytes, a
\* dot at the end, two dots in a row
DomainNames ==
    LET Letters(n) == [i \in 1..n |-> 97]
        Three == Letters(63) \o <<Dot>> \o Letters(63) \o <<Dot>> \o Letters(63) \o <<Dot>> IN
    {Letters(63), Letters(64), Three \o Letters(61), Three \o Letters(62),
     <<97, 233>>, NameDigit, <<Dot, 97>>, <<>>, NameEng \o <<Dot>> \o Letters(63),
     NameOc, NameEng \o <<Dot>>, <<97, Dot, Dot, 98>>}

\* domain lists of one name, and of two of which the second is one of these
DomainOptions ==
    {DomainList(<<n>>) : n \in DomainNames}
        \cup {DomainList(<<NameEng, n>>) : n \in DomainNames}

\* domain lists as they arrive: the labels of each of these names, and labels
\* that hold a dot
RawDomainOptions ==
    {Tlv(OPTION_DOMAIN_LIST, pre \o encode_labels(split_dot(n, <<>>)) \o <<0>>) :
        pre \in {<<>>, <<3, 101, 110, 103, 0>>}, n \in DomainNames}
        \cup {Tlv(OPTION_DOMAIN_LIST, <<2, 46, 97, 0>>),
              Tlv(OPTION_DOMAIN_LIST, <<3, 111, 46, 99>>),
              Tlv(OPTION_DOMAIN_LIST, <<2, 97>>)}

\* all the single options that arrive
OptionBuffers ==
    RawOptions \cup RawDuidOptions \cup RawStatusOptions \cup RawDomainOptions

\* the options compare_options is handed: two containers that hold the same
\* nested options in a different order, and an option that is neither
CmpPool ==
    {RapidCommit, IaNa(3, 0, 0, <<IaAddr1, IaAddr2>>),
     IaNa(3, 0, 0, <<IaAddr2, IaAddr1>>)}

-----------------------------------------------------------------------------
(* The state machine: a caller builds a message, encodes it, and decodes   *)
(* the bytes or a prefix of them; or decodes bytes that arrive.            *)

Init ==
    /\ overflow_checks \in BOOLEAN
    /\ msg = NoMsg
    /\ wire = <<>>
    /\ origin = "none"
    /\ encoded = Idle
    /\ cut = 0
    /\ decoded = Idle
    /\ reencoded = Idle
    /\ opt = NoOpt
    /\ optwire = <<>>
    /\ optenc = Idle
    /\ optdec = Idle
    /\ optreenc = Idle
    /\ lhs = <<>>
    /\ rhs = <<>>
    /\ cmp = Idle
    /\ cmp_rev = Idle
    /\ msg_eq = "idle"
    /\ raw = <<>>
    /\ buf_data = <<>>
    /\ buf_offset = 0
    /\ last = NoCall
    /\ loop_in = <<>>
    /\ stack = <<>>
    /\ loop = "idle"

\* ClientMsg::new(msg_type, Some(tx_id))
New(msg_type, tx_id) ==
    /\ msg = NoMsg
    /\ origin = "none"
    /\ msg' = ClientMsg_new(msg_type, tx_id)
    /\ UNCHANGED <<overflow_checks, wire, origin, encoded, cut, decoded, reencoded>>
    /\ UNCHANGED <<optVars, cmpVars, bufVars, loopVars>>

\* msg.options.push(o): options is a public field
Push(o) ==
    /\ msg # NoMsg
    /\ origin = "none"
    /\ Len(msg.options) < MaxOpts
    /\ \E f \in Families : o \in f /\ \A i \in 1..Len(msg.options) : msg.options[i] \in f
    /\ msg' = [msg EXCEPT !.options = Append(@, o)]
    /\ UNCHANGED <<overflow_checks, wire, origin, encoded, cut, decoded, reencoded>>
    /\ UNCHANGED <<optVars, cmpVars, bufVars, loopVars>>

\* msg.encode()
Encode ==
    /\ msg # NoMsg
    /\ origin = "none"
    /\ encoded' = ClientMsg_encode(msg)
    /\ IF IsOk(encoded') THEN wire' = encoded'.val /\ origin' = "encode"
                         ELSE wire' = wire /\ origin' = "failed"
    /\ UNCHANGED <<overflow_checks, msg, cut, decoded, reencoded>>
    /\ UNCHANGED <<optVars, cmpVars, bufVars, loopVars>>

\* a buffer arrives
Receive(b) ==
    /\ msg = NoMsg
    /\ origin = "none"
    /\ optwire = <<>> /\ opt = NoOpt /\ lhs = <<>> /\ rhs = <<>>
    /\ wire' = b
    /\ origin' = "raw"
    /\ UNCHANGED <<overflow_checks, msg, encoded, cut, decoded, reencoded>>
    /\ UNCHANGED <<optVars, cmpVars, bufVars, loopVars>>

\* ClientMsg::decode(&wire[..n])
Decode(n) ==
    /\ origin \in {"encode", "raw"}
    /\ decoded.err = "Idle"
    /\ cut' = n
    /\ decoded' = ClientMsg_decode(SubSeq(wire, 1, n))
    /\ UNCHANGED <<overflow_checks, msg, wire, origin, encoded, reencoded>>
    /\ UNCHANGED <<optVars, cmpVars, bufVars, loopVars>>

\* the whole buffer is decoded
DecodeAll == Decode(Len(wire))

\* a truncated buffer is decoded; buffers of 64 KiB and more are not truncated
DecodeTruncated ==
    /\ Len(wire) < U16Modulus
    /\ \E n \in 0..(Len(wire) - 1) : Decode(n)

\* ClientMsg::encode(&decoded)
ReEncode ==
    /\ IsOk(decoded)
    /\ reencoded.err = "Idle"
    /\ reencoded' = ClientMsg_encode(decoded.val)
    /\ UNCHANGED <<overflow_checks, msg, wire, origin, encoded, cut, decoded>>
    /\ UNCHANGED <<optVars, cmpVars, bufVars, loopVars>>

Next ==
    \/ \E h \in HeaderInputs : New(h[1], h[2])
    \/ \E o \in OptionPool : Push(o)
    \/ Encode
    \/ \E b \in RawMessages : Receive(b)
    \/ DecodeAll
    \/ DecodeTruncated
    \/ ReEncode

Spec == Init /\ [][Next]_vars

-----------------------------------------------------------------------------
(* Single options: encode_one and parse_one *)

PickOption(o) ==
    /\ msg = NoMsg /\ origin = "none" /\ lhs = <<>> /\ rhs = <<>>
    /\ opt = NoOpt
    /\ optwire = <<>>
    /\ opt' = o
    /\ UNCHANGED <<overflow_checks, optwire, optenc, optdec, optreenc>>
    /\ UNCHANGED <<msgVars, cmpVars, bufVars, loopVars>>

\* encode_one(&opt)
EncodeOne ==
    /\ opt # NoOpt
    /\ optenc.err = "Idle"
    /\ optenc' = encode_one(opt)
    /\ optwire' = IF IsOk(optenc') THEN optenc'.val ELSE optwire
    /\ UNCHANGED <<overflow_checks, opt, optdec, optreenc>>
    /\ UNCHANGED <<msgVars, cmpVars, bufVars, loopVars>>

\* the bytes of an option arrive
ReceiveOption(b) ==
    /\ msg = NoMsg /\ origin = "none" /\ lhs = <<>> /\ rhs = <<>>
    /\ opt = NoOpt
    /\ optwire = <<>>
    /\ optwire' = b
    /\ UNCHANGED <<overflow_checks, opt, optenc, optdec, optreenc>>
    /\ UNCHANGED <<msgVars, cmpVars, bufVars, loopVars>>

\* parse_one(&mut Buffer::new_from_slice(&optwire))
ParseOne ==
    /\ optwire # <<>>
    /\ optdec.err = "Idle"
    /\ optdec' = parse_one(optwire, 0)
    /\ UNCHANGED <<overflow_checks, opt, optwire, optenc, optreenc>>
    /\ UNCHANGED <<msgVars, cmpVars, bufVars, loopVars>>

\* encode_one(&parsed)
ReEncodeOne ==
    /\ IsOk(optdec)
    /\ optreenc.err = "Idle"
    /\ optreenc' = encode_one(optdec.val)
    /\ UNCHANGED <<overflow_checks, opt, optwire, optenc, optdec>>
    /\ UNCHANGED <<msgVars, cmpVars, bufVars, loopVars>>

\* Dhcpv6Option::ClientId(Duid::X(DuidX::new(..)?)): r is what new returned
NewClientId(r) == IsOk(r) /\ PickOption(ClientId(r.val))

NextOpt ==
    \/ \E o \in OptionPool \cup DomainOptions : PickOption(o)
    \/ \E i \in 1..Len(NewDuidCalls) : NewClientId(NewDuidCalls[i])
    \/ EncodeOne
    \/ \E b \in OptionBuffers : ReceiveOption(b)
    \/ ParseOne
    \/ ReEncodeOne

SpecOpt == Init /\ [][NextOpt]_vars

-----------------------------------------------------------------------------
(* Comparisons: compare_options both ways round, and == on two messages    *)
(* that hold the two sequences                                             *)

PushLhs(o) ==
    /\ msg = NoMsg /\ origin = "none" /\ opt = NoOpt /\ optwire = <<>>
    /\ cmp.err = "Idle"
    /\ rhs = <<>>
    /\ Len(lhs) < MaxCmpLen
    /\ lhs' = Append(lhs, o)
    /\ UNCHANGED <<overflow_checks, rhs, cmp, cmp_rev, msg_eq>>
    /\ UNCHANGED <<msgVars, optVars, bufVars, loopVars>>

PushRhs(o) ==
    /\ msg = NoMsg /\ origin = "none" /\ opt = NoOpt /\ optwire = <<>>
    /\ cmp.err = "Idle"
    /\ Len(rhs) < MaxCmpLen
    /\ rhs' = Append(rhs, o)
    /\ UNCHANGED <<overflow_checks, lhs, cmp, cmp_rev, msg_eq>>
    /\ UNCHANGED <<msgVars, optVars, bufVars, loopVars>>

\* compare_options(&lhs, &rhs)
CompareOptions ==
    /\ msg = NoMsg /\ origin = "none" /\ opt = NoOpt /\ optwire = <<>>
    /\ cmp.err = "Idle"
    /\ cmp' = compare_options(lhs, rhs)
    /\ UNCHANGED <<overflow_checks, lhs, rhs, cmp_rev, msg_eq>>
    /\ UNCHANGED <<msgVars, optVars, bufVars, loopVars>>

\* compare_options(&rhs, &lhs)
CompareReverse ==
    /\ cmp.err # "Idle"
    /\ cmp_rev.err = "Idle"
    /\ cmp_rev' = compare_options(rhs, lhs)
    /\ UNCHANGED <<overflow_checks, lhs, rhs, cmp, msg_eq>>
    /\ UNCHANGED <<msgVars, optVars, bufVars, loopVars>>

\* ClientMsg { msg_type, tx_id, options: lhs } == ClientMsg { .., options: rhs }
CompareMsgs(msg_type, tx_id) ==
    /\ cmp_rev.err # "Idle"
    /\ msg_eq = "idle"
    /\ msg_eq' = IF ClientMsg_eq(ClientMsg(msg_type, tx_id, lhs),
                                 ClientMsg(msg_type, tx_id, rhs))
                 THEN "equal" ELSE "unequal"
    /\ UNCHANGED <<overflow_checks, lhs, rhs, cmp, cmp_rev>>
    /\ UNCHANGED <<msgVars, optVars, bufVars, loopVars>>

NextCmp ==
    \/ \E o \in CmpPool : PushLhs(o)
    \/ \E o \in CmpPool : PushRhs(o)
    \/ CompareOptions
    \/ CompareReverse
    \/ CompareMsgs(1, 10689423)

SpecCmp == Init /\ [][NextCmp]_vars

-----------------------------------------------------------------------------
(* The cursor: any sequence of calls on one Buffer                         *)

\* the slices: the one of the tests of buffer.rs, two shorter than a word,
\* one that holds an address and a little more
BufferInputs ==
    {<<17, 34, 51, 68>>, <<1, 2>>, <<171, 205, 239>>,
     [i \in 1..18 |-> 7 * i] \o <<200, 255, 254>>}

\* the counts get_bytes is called with: the last is a length that wrapped
ByteCounts == {0, 1, 3, 16, 21, UsizeWrap - 8}

\* Buffer::new_from_slice(d)
NewFromSlice(d) ==
    /\ last = NoCall
    /\ msg = NoMsg /\ origin = "none" /\ opt = NoOpt /\ optwire = <<>>
    /\ lhs = <<>> /\ rhs = <<>>
    /\ raw' = d
    /\ buf_data' = d
    /\ buf_offset' = 0
    /\ last' = [op |-> "new_from_slice", arg |-> Len(d), before |-> 0, res |-> Idle]
    /\ UNCHANGED <<overflow_checks, msgVars, optVars, cmpVars, loopVars>>

\* a call on the Buffer: r is its Result, which holds the offset it leaves
Call(name, arg, r) ==
    /\ last # NoCall
    /\ buf_offset' = r.off
    /\ last' = [op |-> name, arg |-> arg, before |-> buf_offset, res |-> r]
    /\ UNCHANGED <<raw, buf_data>>
    /\ UNCHANGED <<overflow_checks, msgVars, optVars, cmpVars, loopVars>>

Get8 == Call("get_8", 1, get_8(buf_data, buf_offset))
Get16 == Call("get_16", 2, get_16(buf_data, buf_offset))
Get24 == Call("get_24", 3, get_24(buf_data, buf_offset))
Get32 == Call("get_32", 4, get_32(buf_data, buf_offset))
GetIpv6Addr == Call("get_ipv6addr", IPV6_SIZE, get_ipv6addr(buf_data, buf_offset))
GetBytes(n) == Call("get_bytes", n, get_bytes(buf_data, buf_offset, n))
SetOffset(n) == Call("set_offset", n, set_offset(buf_data, buf_offset, n))

NextBuf ==
    \/ \E d \in BufferInputs : NewFromSlice(d)
    \/ Get8
    \/ Get16
    \/ Get24
    \/ Get32
    \/ GetIpv6Addr
    \/ \E n \in ByteCounts : GetBytes(n)
    \/ \E n \in 0..(Len(buf_data) + 2) : SetOffset(n)

SpecBuf == Init /\ [][NextBuf]_vars

-----------------------------------------------------------------------------
(* The decode loop a step at a time: one step is one turn of the while loop *)
(* of parse_options, up to the call of parse_options on the nested options *)
(* where the option is a container, or the return of a call                *)

\* the code in the header at off, 0 where there is no whole header
code_at(data, off) ==
    IF left(data, off) < 4 THEN 0 ELSE data[off + 1] * 256 + data[off + 2]
len_at(data, off) == data[off + 3] * 256 + data[off + 4]

\* the options whose variant parser is a loop of its own, which parse_one of
\* SpecOpt runs to its end
LoopCodes == {OPTION_USER_CLASS, OPTION_VENDOR_CLASS, OPTION_DOMAIN_LIST}

\* option sequences: the single options that arrive, the options of the
\* messages that arrive, and containers one and two deep as encode writes them
LoopInputs ==
    {b \in OptionBuffers : Len(b) < 64 /\ code_at(b, 0) \notin LoopCodes}
        \cup {SubSeq(m, 5, Len(m)) : m \in {x \in RawMessages : Len(x) > 4}}
        \cup {encode_options(<<a, b>>).val :
                  a \in {IaTa(4, <<IaAddr1>>), IaNa(3, 0, 0, <<IaAddr2, IaAddr1>>),
                         IaNa(3, 0, 0, <<IaAddr(Addr1, 1, 2, <<StatusCodeOpt(0, <<>>)>>),
                                         RapidCommit>>)},
                  b \in {RapidCommit, IaTa(4, <<>>)}}

Frame(data) == [data |-> data, start |-> 0, off |-> 0, next |-> 0]
Top == stack[Len(stack)]
ContainerCodes == {OPTION_IA_NA, OPTION_IA_TA, OPTION_IAADDR}

\* a read that follows the read r
and_then_32(r, data) == IF ~IsOk(r) THEN r ELSE get_32(data, r.off)

\* the fixed fields of a container, read from off on
fixed_fields(code, data, off) ==
    CASE code = OPTION_IA_NA ->
             and_then_32(and_then_32(get_32(data, off), data), data)
      [] code = OPTION_IA_TA -> get_32(data, off)
      [] code = OPTION_IAADDR ->
             and_then_32(and_then_32(get_ipv6addr(data, off), data), data)

\* `len - k` where k is the size of the fixed fields
nested_len(code, len) ==
    wrapping_sub(len, CASE code = OPTION_IA_NA -> 12
                        [] code = OPTION_IA_TA -> 4
                        [] code = OPTION_IAADDR -> 24)

\* a container parser up to `buf.get_bytes(len)?` of parse_nested_options:
\* f is what reading the fixed fields returned
nested_bytes(code, len, data, f) ==
    IF ~IsOk(f) THEN f
    ELSE IF nested_len(code, len) > len /\ overflow_checks THEN Panic(f.off)
    ELSE get_bytes(data, f.off, nested_len(code, len))

\* `?`: every call in progress returns the error
Unwind(r) ==
    /\ loop' = r.err
    /\ stack' = <<>>

\* parse_options(&mut Buffer::new_from_slice(b))
StartLoop(b) ==
    /\ loop = "idle"
    /\ msg = NoMsg /\ origin = "none" /\ opt = NoOpt /\ optwire = <<>>
    /\ lhs = <<>> /\ rhs = <<>> /\ last = NoCall
    /\ loop_in' = b
    /\ stack' = <<Frame(b)>>
    /\ loop' = "running"
    /\ UNCHANGED <<overflow_checks, msgVars, optVars, cmpVars, bufVars>>

\* the end of a turn on an option without nested options: r is what
\* parse_one returned
Advance(r) ==
    IF ~IsOk(r) THEN Unwind(r)
    ELSE /\ stack' = [stack EXCEPT ![Len(stack)] =
                          [@ EXCEPT !.start = Top.off, !.off = r.off, !.next = r.off]]
         /\ loop' = loop

\* `opts.push(parse_one(buf)?)` on an option that is not a container, or
\* whose header is cut short
ParseOption ==
    /\ loop = "running"
    /\ left(Top.data, Top.off) > 0
    /\ code_at(Top.data, Top.off) \notin ContainerCodes
    /\ Advance(parse_one(Top.data, Top.off))
    /\ UNCHANGED <<loop_in, overflow_checks, msgVars, optVars, cmpVars, bufVars>>

\* the nested options are taken out of the buffer and parse_options is
\* called on them: d is what get_bytes returned
Descend(next, d) ==
    IF ~IsOk(d) THEN Unwind(d)
    ELSE /\ stack' = Append([stack EXCEPT ![Len(stack)] =
                                 [@ EXCEPT !.start = Top.off, !.off = d.off, !.next = next]],
                            Frame(d.val))
         /\ loop' = loop

\* parse_one on a container, up to the call of parse_options on its nested
\* options
EnterContainer ==
    /\ loop = "running"
    /\ code_at(Top.data, Top.off) \in ContainerCodes
    /\ Descend(Top.off + 4 + len_at(Top.data, Top.off),
               nested_bytes(code_at(Top.data, Top.off), len_at(Top.data, Top.off), Top.data,
                            fixed_fields(code_at(Top.data, Top.off), Top.data, Top.off + 4)))
    /\ UNCHANGED <<loop_in, overflow_checks, msgVars, optVars, cmpVars, bufVars>>

\* the container whose nested options have been parsed: r is what
\* `buf.set_offset(next)?` of its parse_one returned
Resume(r) ==
    IF ~IsOk(r) THEN Unwind(r)
    ELSE /\ stack' = [SubSeq(stack, 1, Len(stack) - 1) EXCEPT ![Len(stack) - 1] =
                          [@ EXCEPT !.off = r.off]]
         /\ loop' = loop

\* `while buf.left() > 0` is false: parse_options returns, to the caller or
\* to the container parser that called it
EndOfBuffer ==
    /\ loop = "running"
    /\ left(Top.data, Top.off) = 0
    /\ IF Len(stack) = 1 THEN loop' = "Ok" /\ stack' = <<>>
       ELSE Resume(skip_to_next(stack[Len(stack) - 1].data, stack[Len(stack) - 1].next,
                                Ok(NoVal, stack[Len(stack) - 1].off)))
    /\ UNCHANGED <<loop_in, overflow_checks, msgVars, optVars, cmpVars, bufVars>>

Step == ParseOption \/ EnterContainer \/ EndOfBuffer

NextLoop ==
    \/ \E b \in LoopInputs : StartLoop(b)
    \/ ParseOption
    \/ EnterContainer
    \/ EndOfBuffer

\* a call that has started goes on: nothing else runs in it
SpecLoop == Init /\ [][NextLoop]_vars /\ WF_vars(Step)

-----------------------------------------------------------------------------
(* Properties of the message codec, checked under Spec *)

\* the whole of wire has been decoded
DecodedAll == decoded.err # "Idle" /\ cut = Len(wire)
\* a proper prefix of wire has been decoded
DecodedPrefix == decoded.err # "Idle" /\ cut < Len(wire)

\* C1: every message that encodes decodes from its encoding to a message of
\* the same type and transaction id whose options are the same multiset.
C1_RoundTrip ==
    (origin = "encode" /\ DecodedAll) =>
        /\ IsOk(decoded)
        /\ decoded.val.msg_type = msg.msg_type
        /\ decoded.val.tx_id = msg.tx_id
        /\ IsOk(compare_options(msg.options, decoded.val.options))

\* the names C2 admits: not empty, valid, and without an empty label
PlainName(n) ==
    /\ n # <<>>
    /\ domain_validate(n) = "Ok"
    /\ \A i \in 1..Len(n) : n[i] = Dot => i < Len(n) /\ n[i + 1] # Dot

\* the options C2 admits
FixtureKind(o) ==
    CASE o.t \in {"ClientId", "ServerId"} -> o.duid.v = "Llt" /\ o.duid.link_layer # <<>>
      [] o.t = "IaNa" -> \A i \in 1..Len(o.options) :
                             o.options[i].t = "IaAddr" /\ o.options[i].options = <<>>
      [] o.t \in {"Oro", "RapidCommit", "ElapsedTime", "DnsServers"} -> TRUE
      [] o.t = "DomainList" -> \A i \in 1..Len(o.names) : PlainName(o.names[i])
      [] OTHER -> FALSE

FixtureMsg ==
    /\ origin = "encode"
    /\ msg.options # <<>>
    /\ \A i \in 1..Len(msg.options) : FixtureKind(msg.options[i])

\* C2: the encoding of a message made of the fixtures' kinds of option decodes
\* to exactly those options, in order, and encodes again to the same bytes.
C2_FixtureRoundTrip ==
    (FixtureMsg /\ DecodedAll) =>
        /\ IsOk(decoded)
        /\ decoded.val = msg
        /\ reencoded.err # "Idle" => IsOk(reencoded) /\ reencoded.val = wire

\* C2 holds of the messages none of whose payloads reaches 64 KiB
C2_FixtureRoundTripBelow64K ==
    Len(wire) < U16Modulus => C2_FixtureRoundTrip

\* C3: the four bytes of a header alone, with a message type in 1..13, decode
\* to a message of that type and transaction id without options.
C3_HeaderOnly ==
    (decoded.err # "Idle" /\ cut = 4 /\ wire[1] \in MsgTypes) =>
        /\ IsOk(decoded)
        /\ decoded.val = ClientMsg(wire[1],
                                   wire[2] * 65536 + wire[3] * 256 + wire[4], <<>>)

\* the offsets at which the options that start at off and follow it end,
\* going by their length fields
RECURSIVE TlvEnds(_, _)
TlvEnds(data, off) ==
    IF off + 4 > Len(data) THEN {}
    ELSE LET end == off + 4 + data[off + 3] * 256 + data[off + 4] IN
         {end} \cup (IF end >= Len(data) THEN {} ELSE TlvEnds(data, end))

\* wire is a message that decodes
ValidWire == origin \in {"encode", "raw"} /\ IsOk(ClientMsg_decode(wire))

-----------------------------------------------------------------------------
(* Properties of single options, checked under SpecOpt *)

\* the codes parse_one has a variant for (Auth, 11, is one: it fails)
ImplementedCodes == (1..9) \cup (11..20) \cup {23, 24}

\* the code and the length that optwire declares
WireCode == optwire[1] * 256 + optwire[2]
WireLen == optwire[3] * 256 + optwire[4]

\* optwire starts with a whole option of a code without a variant
UnknownFits ==
    /\ Len(optwire) >= 4
    /\ WireCode \notin ImplementedCodes
    /\ 4 + WireLen <= Len(optwire)

\* C5: an option of a code outside the implemented set whose declared length
\* fits in the buffer decodes without error to Other with that code, length
\* and payload, and encodes again to the bytes it was decoded from.
C5_UnknownPreserved ==
    (UnknownFits /\ optdec.err # "Idle") =>
        /\ IsOk(optdec)
        /\ optdec.val = Other(WireCode, WireLen, SubSeq(optwire, 5, 4 + WireLen))
        /\ optdec.off = 4 + WireLen
        /\ optreenc.err # "Idle" =>
               /\ IsOk(optreenc)
               /\ optreenc.val = SubSeq(optwire, 1, 4 + WireLen)

\* an unknown option with a payload, followed by other bytes, has been
\* decoded and encoded again
C5_Witness ==
    /\ UnknownFits
    /\ opt = NoOpt
    /\ WireLen > 0
    /\ 4 + WireLen < Len(optwire)
    /\ IsOk(optdec)
    /\ IsOk(optreenc)

\* C9: decoding the encoding of a user-class or vendor-class option returns
\* the option, with the same list of class data.
C9_ClassRoundTrip ==
    (opt # NoOpt /\ opt.t \in {"UserClass", "VendorClass"} /\ optdec.err # "Idle") =>
        /\ IsOk(optdec)
        /\ optdec.val = opt

\* C10: decoding the encoding of a ClientId or ServerId option returns an
\* equal DUID, whatever DUID the constructors accept.
C10_DuidRoundTrip ==
    (opt # NoOpt /\ opt.t \in {"ClientId", "ServerId"} /\ optdec.err # "Idle") =>
        /\ IsOk(optdec)
        /\ optdec.val.t = opt.t
        /\ optdec.val.duid = opt.duid

-----------------------------------------------------------------------------
(* Properties of the comparisons, checked under SpecCmp *)

\* equality of options and of sequences of options as bags, by counting:
\* containers are equal when their fields are and their options are, as bags
RECURSIVE SameOption(_, _), Count(_, _), BagEq(_, _)

SameOption(x, y) ==
    IF x.t # y.t THEN FALSE
    ELSE IF x.t \in {"IaNa", "IaTa", "IaAddr"}
    THEN /\ [x EXCEPT !.options = <<>>] = [y EXCEPT !.options = <<>>]
         /\ BagEq(x.options, y.options)
    ELSE x = y

\* how many elements of s are o
Count(s, o) == Cardinality({j \in 1..Len(s) : SameOption(s[j], o)})

BagEq(a, b) ==
    /\ Len(a) = Len(b)
    /\ \A i \in 1..Len(a) : Count(a, a[i]) = Count(b, a[i])

\* how many elements of s have no partner in other: the i-th of s has none
\* when it is a later occurrence than other has occurrences
Unmatched(s, other) ==
    Cardinality({i \in 1..Len(s) :
                    Count(SubSeq(s, 1, i), s[i]) > Count(other, s[i])})

\* C6: two messages of the same type and transaction id whose option lists
\* are permutations of each other compare equal.
C6_MsgEqOrderIndependent ==
    (msg_eq # "idle" /\ BagEq(lhs, rhs)) => msg_eq = "equal"

\* C7: compare_options(a, b) is Ok exactly when a and b are equal as bags, and
\* exactly when compare_options(b, a) is Ok.
C7_CompareIsBagEquality ==
    /\ cmp.err # "Idle" => (IsOk(cmp) <=> BagEq(lhs, rhs))
    /\ cmp_rev.err # "Idle" => (IsOk(cmp_rev) <=> IsOk(cmp))

\* two sequences that differ in order only, an option occurring twice, have
\* been compared both ways round
C7_Witness ==
    /\ cmp_rev.err # "Idle"
    /\ IsOk(cmp)
    /\ Len(lhs) = 3
    /\ lhs # rhs
    /\ \E i, j \in 1..Len(lhs) : i # j /\ lhs[i] = lhs[j]

\* the error says how many of rhs (extra) and of lhs (missing) are unmatched
ReportsCounts ==
    /\ cmp.err = "Other"
    /\ cmp.val.text = "extra options, missing options"
    /\ cmp.val.extra = Unmatched(rhs, lhs)
    /\ cmp.val.missing = Unmatched(lhs, rhs)

\* C8 as stated: whenever the sequences are unequal, of different lengths
\* too, the error reports the numbers of unmatched elements of either side.
C8_MismatchCounts ==
    (cmp.err # "Idle" /\ ~BagEq(lhs, rhs)) => ReportsCounts

\* C8 as amended: unequal sequences of the same length get an error with the
\* numbers of unmatched elements of either side; sequences of different
\* lengths get the error "option counts differ", without numbers.
C8_MismatchCountsAmended ==
    (cmp.err # "Idle" /\ ~BagEq(lhs, rhs)) =>
        IF Len(lhs) = Len(rhs) THEN ReportsCounts
        ELSE cmp.err = "Other" /\ cmp.val = [text |-> "option counts differ"]

\* [A, A] against [A, B]: one extra, one missing
C8_Witness ==
    /\ cmp.err = "Other"
    /\ Len(lhs) = 2 /\ Len(rhs) = 2
    /\ lhs[1] = lhs[2]
    /\ rhs[1] = lhs[1]
    /\ cmp.val.text = "extra options, missing options"
    /\ cmp.val.extra = 1 /\ cmp.val.missing = 1

-----------------------------------------------------------------------------
(* Properties of the DUIDs and of the status code, checked under SpecOpt *)

IsDuidOption(o) == o.t \in {"ClientId", "ServerId"}

\* the type selector and the body of a DUID, as bytes on the wire
DuidSize(d) == Len(Duid_encode(d))

\* optwire is a whole client or server identifier option
DuidFits ==
    /\ Len(optwire) >= 4
    /\ WireCode \in {OPTION_CLIENTID, OPTION_SERVERID}
    /\ 4 + WireLen <= Len(optwire)

\* C11: a DUID that new returned or that a client or server identifier
\* decoded to is at most 128 bytes on the wire, selector included, and an
\* identifier option with a payload of more than 128 bytes is rejected with
\* BadOption.
C11_DuidAtMost128 ==
    /\ (opt # NoOpt /\ IsDuidOption(opt)) => DuidSize(opt.duid) <= 128
    /\ (IsOk(optdec) /\ IsDuidOption(optdec.val)) => DuidSize(optdec.val.duid) <= 128
    /\ (optdec.err # "Idle" /\ DuidFits /\ WireLen > 128) => optdec.err = "BadOption"

\* the part of C11 that is about the constructors
C11_NewAtMost128 ==
    (opt # NoOpt /\ IsDuidOption(opt)) => DuidSize(opt.duid) <= 128

\* the bound the code has on what it decodes: a payload of at most 130 bytes
C11_DecodedAtMost130 ==
    /\ (IsOk(optdec) /\ IsDuidOption(optdec.val)) => DuidSize(optdec.val.duid) <= 130
    /\ (optdec.err # "Idle" /\ DuidFits /\ WireLen > 130) => optdec.err = "BadOption"


\* optwire is a whole status-code option whose status is none of 0..5
InvalidStatusFits ==
    /\ Len(optwire) >= 6
    /\ WireCode = OPTION_STATUS_CODE
    /\ WireLen >= 2
    /\ 4 + WireLen <= Len(optwire)
    /\ optwire[5] * 256 + optwire[6] \notin 0..5

\* C12: decoding a status-code option whose status is outside 0..5 fails with
\* BadOption.
C12_InvalidStatusBadOption ==
    (optdec.err # "Idle" /\ InvalidStatusFits) => optdec.err = "BadOption"

\* what the code returns for such an option: the error kind Other
C12_InvalidStatusOther ==
    (optdec.err # "Idle" /\ InvalidStatusFits) =>
        optdec.err = "Other" /\ optdec.val = "invalid status code"


-----------------------------------------------------------------------------
(* Properties of the framing of an option, checked under SpecOpt *)

\* the length field of the option encode_one returned, and its payload size
EncodedLen == optenc.val[3] * 256 + optenc.val[4]
EncodedPayload == Len(optenc.val) - 4

\* C13: the length field that encode writes for an option is the number of
\* payload bytes that follow it, whatever the size of the payload.
C13_LengthIsPayloadSize ==
    (opt # NoOpt /\ IsOk(optenc)) => EncodedLen = EncodedPayload

\* what encode_one writes: the payload size modulo 2^16, without an error
C13_LengthIsPayloadSizeMod ==
    (opt # NoOpt /\ IsOk(optenc)) => EncodedLen = EncodedPayload % U16Modulus


-----------------------------------------------------------------------------
(* The grammar of domain names, checked under SpecOpt *)

\* what the grammar forbids: a character that is not ASCII, a label of more
\* than 63 bytes, more than 253 bytes, a first character that is not a letter
BadName(n) ==
    \/ \E i \in 1..Len(n) : n[i] >= 128
    \/ \E l \in {x \in 1..(Len(n) + 1) : x <= Len(split_dot(n, <<>>))} :
           Len(split_dot(n, <<>>)[l]) > 63
    \/ str_len(n) > 253
    \/ n # <<>> /\ ~((n[1] >= 65 /\ n[1] <= 90) \/ (n[1] >= 97 /\ n[1] <= 122))

\* letters, digits and dots within the four limits
GoodName(n) ==
    /\ ~BadName(n)
    /\ \A i \in 1..Len(n) :
           \/ n[i] = Dot
           \/ (n[i] >= 48 /\ n[i] <= 57) \/ (n[i] >= 65 /\ n[i] <= 90)
           \/ (n[i] >= 97 /\ n[i] <= 122)

\* the names that the labels in bytes spell, one after the other; an empty
\* sequence where a label runs over the end
RECURSIVE WireNames(_)
WireNames(bytes) ==
    IF bytes = <<>> THEN <<>>
    ELSE LET r == domain_parse_loop(bytes, <<>>) IN
         IF ~IsOk(r) THEN <<>> ELSE <<r.val[1]>> \o WireNames(r.val[2])

\* optwire is a whole domain-list option
DomainListFits ==
    /\ Len(optwire) >= 4
    /\ WireCode = OPTION_DOMAIN_LIST
    /\ 4 + WireLen <= Len(optwire)

ArrivedNames == WireNames(SubSeq(optwire, 5, 4 + WireLen))

C17_WitnessDecode ==
    /\ opt = NoOpt /\ DomainListFits
    /\ Len(ArrivedNames) = 1
    /\ Len(ArrivedNames[1]) = 254
    /\ optdec.err = "BadOption"

\* opt is a domain list of names that domain_validate accepts
ValidDomainList ==
    /\ opt # NoOpt
    /\ opt.t = "DomainList"
    /\ \A i \in 1..Len(opt.names) : domain_validate(opt.names[i]) = "Ok"

\* C25: a domain list of names that satisfy the grammar encodes, and what was
\* written decodes to the same names in the same order.
C25_DomainListRoundTrip ==
    /\ (ValidDomainList /\ optenc.err # "Idle") => IsOk(optenc)
    /\ (ValidDomainList /\ optdec.err # "Idle") =>
           IsOk(optdec) /\ optdec.val.names = opt.names

\* what the code does: the same of the lists of names that are not empty and
\* hold no empty label
C25_PlainDomainListRoundTrip ==
    /\ (ValidDomainList /\ optenc.err # "Idle") => IsOk(optenc)
    /\ (ValidDomainList /\ optdec.err # "Idle"
           /\ \A i \in 1..Len(opt.names) : PlainName(opt.names[i])) =>
           IsOk(optdec) /\ optdec.val.names = opt.names

-----------------------------------------------------------------------------
(* Declared lengths, checked under SpecOpt *)

\* optwire holds the header of an option that declares more payload than
\* optwire has, and parse_one has run on it
DeclaredBeyond ==
    /\ opt = NoOpt
    /\ Len(optwire) >= 4
    /\ 4 + WireLen > Len(optwire)
    /\ optdec.err # "Idle"

\* C18: an option whose declared end lies beyond the end of the buffer fails
\* with TooShort and with no other kind of error.
C18_DeclaredEndTooShort == DeclaredBeyond => optdec.err = "TooShort"

\* what parse_one does: such an option is never decoded, the error is the one
\* of the variant parser where it has one
C18_DeclaredEndFails == DeclaredBeyond => ~IsOk(optdec)

\* optwire starts with a whole option, and parse_one has run on it
WholeOption ==
    /\ opt = NoOpt
    /\ Len(optwire) >= 4
    /\ 4 + WireLen <= Len(optwire)
    /\ optdec.err # "Idle"

\* b starts with the header and the declared payload optwire starts with
SameDeclared(b) ==
    /\ Len(b) >= 4 + WireLen
    /\ SubSeq(b, 1, 4 + WireLen) = SubSeq(optwire, 1, 4 + WireLen)

\* parse_one gives on b what it gave on optwire
SameResult(b) ==
    /\ parse_one(b, 0).err = optdec.err
    /\ IsOk(optdec) => parse_one(b, 0).val = optdec.val

\* C19: the value an option decodes to depends on its code, its declared
\* length and the bytes within that length only: buffers that agree on those
\* and differ in what follows decode the option to the same value.
C19_ValueFromDeclaredBytes ==
    WholeOption => \A b \in OptionBuffers : SameDeclared(b) => SameResult(b)

\* the bytes the parsers of Preference, ElapsedTime, Unicast and
\* ReconfMsg read, whatever the declared length
ScalarSize(code) ==
    CASE code = OPTION_PREFERENCE -> 1
      [] code = OPTION_ELAPSED_TIME -> 2
      [] code = OPTION_UNICAST -> IPV6_SIZE
      [] code = OPTION_RECONF_MSG -> 1
      [] OTHER -> 0

\* what parse_one does: the same holds of the options that declare at least
\* what the parser of their code reads
C19_ValueFromDeclaredBytesOrMore ==
    (WholeOption /\ WireLen >= ScalarSize(WireCode)) =>
        \A b \in OptionBuffers : SameDeclared(b) => SameResult(b)

\* C21: after a successful parse of one option the cursor is just after the
\* 4 bytes of the header and the declared length, whether the variant parser
\* read fewer bytes than declared or more.
C21_CursorAtDeclaredEnd ==
    (optwire # <<>> /\ IsOk(optdec)) => optdec.off = 4 + WireLen

\* a Preference that declares no payload has been parsed: its parser read one
\* byte, and the cursor is back at 4
C21_Witness ==
    /\ optwire = <<0, 7, 0, 0, 9>>
    /\ IsOk(optdec)
    /\ optdec.val = Preference(9)
    /\ optdec.off = 4

\* a RapidCommit that declares two bytes has been parsed: they are skipped
C21_WitnessSkip ==
    /\ optwire = <<0, 14, 0, 2, 1, 2>>
    /\ IsOk(optdec)
    /\ optdec.off = 6

-----------------------------------------------------------------------------
(* Properties of the message header, checked under Spec *)

\* C14: decode of a buffer that starts with a byte outside 1..13 fails with
\* UnknownMsgCode of that byte, whatever follows and however little; decode
\* of a buffer that starts with a byte in 1..13 never fails with it.
C14_UnknownMsgCode ==
    (decoded.err # "Idle" /\ cut >= 1) =>
        IF wire[1] \in 1..13 THEN decoded.err # "UnknownMsgCode"
        ELSE decoded.err = "UnknownMsgCode" /\ decoded.val = wire[1]

\* a buffer of fewer than four bytes with an unknown type has been decoded
C14_Witness ==
    /\ decoded.err = "UnknownMsgCode"
    /\ cut \in 1..3
    /\ wire[1] > 13

\* C15: new stores the transaction id it is given modulo 2^24, with the type
\* and no options, and decode stores the big-endian value of bytes 1..3 of
\* the header: the transaction id of a message is below 2^24.
C15_TxIdBelow2p24 ==
    /\ msg # NoMsg => msg.tx_id \in 0..16777215
    /\ (msg # NoMsg /\ msg.options = <<>>) =>
           \E h \in HeaderInputs :
               msg = [msg_type |-> h[1], tx_id |-> h[2] % 16777216, options |-> <<>>]
    /\ IsOk(decoded) =>
           /\ decoded.val.tx_id = wire[2] * 65536 + wire[3] * 256 + wire[4]
           /\ decoded.val.tx_id \in 0..16777215

\* new was given a transaction id of more than 24 bits, and the message has
\* been encoded and decoded
C15_Witness ==
    /\ msg.msg_type = 5
    /\ msg.tx_id = 14416578
    /\ IsOk(decoded)
    /\ decoded.val.tx_id = 14416578

-----------------------------------------------------------------------------
(* The Authentication option, checked under Spec *)

Containers == {"IaNa", "IaTa", "IaAddr"}

\* the fixed fields a container holds before its nested options
FixedSize(code) ==
    CASE code = OPTION_IA_NA -> 12
      [] code = OPTION_IA_TA -> 4
      [] code = OPTION_IAADDR -> IPV6_SIZE + 8
      [] OTHER -> 0

\* the decode loop over data gets, at off or later, at top level or within a
\* container, to a whole option header whose code is 11
RECURSIVE AuthReached(_, _)
AuthReached(data, off) ==
    IF off + 4 > Len(data) THEN FALSE
    ELSE LET code == data[off + 1] * 256 + data[off + 2]
             len == data[off + 3] * 256 + data[off + 4]
             one == parse_one(data, off) IN
         \/ code = OPTION_AUTH
         \/ /\ code \in {OPTION_IA_NA, OPTION_IA_TA, OPTION_IAADDR}
            /\ len >= FixedSize(code)
            /\ off + 4 + len <= Len(data)
            /\ AuthReached(SubSeq(data, off + 4 + FixedSize(code) + 1, off + 4 + len), 0)
         \/ /\ code # OPTION_AUTH
            /\ IsOk(one)
            /\ AuthReached(data, one.off)

\* opts holds Auth, at any depth
RECURSIVE HasAuth(_)
HasAuth(opts) ==
    \E i \in 1..Len(opts) :
        \/ opts[i].t = "Auth"
        \/ opts[i].t \in Containers /\ HasAuth(opts[i].options)

\* the first refusal in the order the options are encoded, "Ok" without one:
\* Auth is Unimplemented, a domain list with an invalid name is BadOption
RECURSIVE FirstRefused(_)
FirstRefused(opts) ==
    IF opts = <<>> THEN "Ok"
    ELSE LET o == Head(opts)
             own == CASE o.t = "Auth" -> "Unimplemented"
                      [] o.t = "DomainList" ->
                             IF \E i \in 1..Len(o.names) : domain_validate(o.names[i]) # "Ok"
                             THEN "BadOption" ELSE "Ok"
                      [] o.t \in Containers -> FirstRefused(o.options)
                      [] OTHER -> "Ok" IN
         IF own # "Ok" THEN own ELSE FirstRefused(Tail(opts))

\* a known message type, its transaction id, and an Auth header reached
AuthDecoded ==
    /\ decoded.err # "Idle"
    /\ cut >= 4
    /\ wire[1] \in MsgTypes
    /\ AuthReached(SubSeq(wire, 1, cut), 4)

\* the message handed to encode holds Auth
AuthEncoded == msg # NoMsg /\ encoded.err # "Idle" /\ HasAuth(msg.options)

\* C16: decoding fails with Unimplemented when the decode loop reaches an
\* option header with code 11, whatever its length and payload, and encoding
\* options that hold Auth at any depth fails with Unimplemented, without bytes.
C16_AuthUnimplemented ==
    /\ AuthDecoded => decoded.err = "Unimplemented"
    /\ AuthEncoded => encoded.err = "Unimplemented" /\ origin = "failed" /\ wire = <<>>

\* C16 as the code has it: encoding fails without bytes, with the error of the
\* first option encode refuses, which is Unimplemented when nothing before
\* the Auth is refused
C16_AuthUnimplementedAmended ==
    /\ AuthDecoded => decoded.err = "Unimplemented"
    /\ AuthEncoded =>
           /\ encoded.err = FirstRefused(msg.options)
           /\ encoded.err \in {"Unimplemented", "BadOption"}
           /\ origin = "failed" /\ wire = <<>>

\* an Auth two containers deep, behind options that encode, has been refused
C16_Witness ==
    /\ AuthEncoded
    /\ Len(msg.options) = 2
    /\ msg.options[1] = RapidCommit
    /\ msg.options[2].t = "IaNa"
    /\ encoded.err = "Unimplemented"

\* an Auth header that declares more than the buffer holds has been reached
\* two containers deep
C16_WitnessDecode ==
    /\ AuthDecoded
    /\ wire[5] * 256 + wire[6] = OPTION_IA_TA
    /\ cut = Len(wire)
    /\ decoded.err = "Unimplemented"

-----------------------------------------------------------------------------
(* Arithmetic on declared lengths, checked under Spec *)

\* C20: ClientMsg::decode returns Ok or an Error on every buffer: no declared
\* length makes a subtraction of a fixed field size underflow, no slice is
\* taken out of bounds.
C20_DecodeNeverPanics == decoded.err # "Panic"

\* what the code does: without overflow checks the subtraction wraps, and the
\* call returns
C20_DecodeReturnsWhenWrapping == ~overflow_checks => decoded.err # "Panic"

-----------------------------------------------------------------------------
(* Nested options, checked under SpecOpt *)

\* optwire starts with a whole IA_NA, IA_TA or IAADDR that declares at least
\* its fixed fields, and parse_one has run on it
ContainerArrived ==
    /\ opt = NoOpt
    /\ Len(optwire) >= 4
    /\ WireCode \in {OPTION_IA_NA, OPTION_IA_TA, OPTION_IAADDR}
    /\ WireLen >= FixedSize(WireCode)
    /\ 4 + WireLen <= Len(optwire)
    /\ optdec.err # "Idle"

\* the bytes of the nested options of that container
NestedPayload == SubSeq(optwire, 4 + FixedSize(WireCode) + 1, 4 + WireLen)

\* the decode loop over p, from off on, gets to an option whose header, whose
\* declared length or whose fixed-width field runs over the end of p
RECURSIVE Overruns(_, _)
Overruns(p, off) ==
    /\ off < Len(p)
    /\ \/ off + 4 > Len(p)
       \/ /\ off + 4 <= Len(p)
          /\ LET code == p[off + 1] * 256 + p[off + 2]
                 len == p[off + 3] * 256 + p[off + 4] IN
             \/ off + 4 + len > Len(p)
             \/ off + 4 + ScalarSize(code) > Len(p)
             \/ IsOk(parse_one(p, off)) /\ Overruns(p, parse_one(p, off).off)

\* C22: a nested option whose header, declared length or fixed-width field
\* runs over the end of the payload of its container makes the decode fail
\* with TooShort; nothing that follows the container is read.
C22_NestedOverrunTooShort ==
    (ContainerArrived /\ Overruns(NestedPayload, 0)) => optdec.err = "TooShort"

\* what the code does: the decode fails, and with the same error as when
\* nothing follows the container
C22_NestedOverrunFails ==
    (ContainerArrived /\ Overruns(NestedPayload, 0)) =>
        /\ ~IsOk(optdec)
        /\ optdec.err = parse_one(SubSeq(optwire, 1, 4 + WireLen), 0).err

-----------------------------------------------------------------------------
(* The cursor, checked under SpecBuf *)

Reads == {"get_8", "get_16", "get_24", "get_32", "get_bytes", "get_ipv6addr"}

\* the bytes b read as one unsigned number, most significant byte first
RECURSIVE BigEndian(_)
BigEndian(b) ==
    IF b = <<>> THEN 0 ELSE BigEndian(SubSeq(b, 1, Len(b) - 1)) * 256 + b[Len(b)]

\* the w bytes at the offset the last call started from
BytesRead == SubSeq(buf_data, last.before + 1, last.before + last.arg)

\* C24: a read of w bytes with fewer than w bytes left fails with TooShort and
\* leaves the offset where it was; a read that succeeds advances the offset by
\* w and returns the big-endian value of the w bytes; set_offset beyond the
\* length of the buffer fails with TooShort and leaves the offset where it was.
C24_ReadSemantics ==
    /\ (last.op \in Reads /\ Len(buf_data) - last.before < last.arg) =>
           last.res.err = "TooShort" /\ buf_offset = last.before
    /\ (last.op \in Reads /\ IsOk(last.res)) =>
           /\ buf_offset = last.before + last.arg
           /\ last.op \in {"get_8", "get_16", "get_24", "get_32"}
                  => last.res.val = BigEndian(BytesRead)
           /\ last.op = "get_bytes" => last.res.val = BytesRead
           /\ last.op = "get_ipv6addr" =>
                  last.res.val = [i \in 1..8 |-> BigEndian(SubSeq(BytesRead, 2 * i - 1, 2 * i))]
    /\ (last.op = "set_offset" /\ last.arg > Len(buf_data)) =>
           last.res.err = "TooShort" /\ buf_offset = last.before

\* test_overflow: a second get_32 on four bytes has failed at offset 4
C24_Witness ==
    /\ raw = <<17, 34, 51, 68>>
    /\ last.op = "get_32"
    /\ last.before = 4
    /\ last.res.err = "TooShort"
    /\ buf_offset = 4

\* get_24 has read three bytes in the middle of a buffer
C24_WitnessRead ==
    /\ last.op = "get_24"
    /\ last.before = 1
    /\ IsOk(last.res)
    /\ last.res.val = 14 * 65536 + 21 * 256 + 28
    /\ buf_offset = 4

\* C26: whatever calls have been made on a Buffer, reads and set_offset, failed
\* or not, its offset is between 0 and the length of the buffer, the bytes are
\* those it was made from, and left() is the length minus the offset.
C26_BufferInvariant ==
    last # NoCall =>
        /\ 0 <= buf_offset
        /\ buf_offset <= Len(buf_data)
        /\ buf_data = raw
        /\ left(buf_data, buf_offset) = Len(buf_data) - buf_offset

\* set_offset has failed just beyond the end, after the cursor had got to the
\* end by a read
C26_Witness ==
    /\ last.op = "set_offset"
    /\ last.arg = Len(buf_data) + 1
    /\ last.res.err = "TooShort"
    /\ last.before = Len(buf_data)
    /\ buf_offset = Len(buf_data)
    /\ Len(buf_data) = 21

-----------------------------------------------------------------------------
(* Termination, checked under SpecLoop *)

Running == loop = "running"
Stopped == loop \notin {"idle", "running"}

\* a call that has done a turn of its loop is at least 4 bytes beyond where
\* the turn started
LoopProgress ==
    \A d \in 1..Len(stack) :
        \/ stack[d] = Frame(stack[d].data)
        \/ stack[d].off >= stack[d].start + 4

\* the nested options a call runs on are fewer bytes than the option that
\* holds them, header included
NestedShorter ==
    \A d \in 2..Len(stack) :
        /\ Len(stack[d].data) < stack[d - 1].next - stack[d - 1].start
        /\ Len(stack[d].data) < Len(stack[d - 1].data)

\* what is left to read in the calls in progress, and a byte for each call
RECURSIVE LeftIn(_)
LeftIn(frames) ==
    IF frames = <<>> THEN 0
    ELSE left(Head(frames).data, Head(frames).off) + 1 + LeftIn(Tail(frames))

\* every step of a call leaves less of it
Decreases == Running => LeftIn(stack') < LeftIn(stack)

\* the steps end as parse_options does
LoopAgrees == Stopped => loop = parse_options(loop_in, 0).err

\* the call has returned Ok or an Error
Returned == Stopped /\ loop # "Panic"

\* C23: decoding terminates: every turn of the decode loop fails or leaves
\* the offset at least 4 bytes further, every nested parse runs on fewer bytes
\* than the option that holds them, and a call of parse_options that has
\* started returns.
C23_DecodeTerminates ==
    /\ [](LoopProgress /\ NestedShorter /\ LoopAgrees)
    /\ [][Decreases]_vars
    /\ Running ~> Returned

\* what the code does: a call that has started ends, by a return or by the
\* panic of a declared length below the fixed fields
C23_DecodeStops ==
    /\ [](LoopProgress /\ NestedShorter /\ LoopAgrees)
    /\ [][Decreases]_vars
    /\ Running ~> Stopped

\* a call has ended in a panic
C23_WitnessPanic == loop = "Panic" /\ overflow_checks

\* a call has ended well after parse_options ran three deep
C23_Witness ==
    /\ loop = "Ok"
    /\ Len(loop_in) > 60
    /\ IsOk(parse_options(loop_in, 0))
    /\ \E i \in 1..Len(parse_options(loop_in, 0).val) :
           LET o == parse_options(loop_in, 0).val[i] IN
           /\ o.t = "IaNa"
           /\ o.options # <<>>
           /\ o.options[1].t = "IaAddr"
           /\ o.options[1].options # <<>>

\* three calls of parse_options are in progress
C23_WitnessDepth == Running /\ Len(stack) = 3

====
